---- MODULE Spec2Model ----
(***************************************************************************)
(* Classical post-processing of the QKD protocol: Cascade reconciliation   *)
(* (reconciliation/simple_cascade.py), polynomial-hash verification        *)
(* (verification/verifier.py) and the Alice/Bob programs (core/protocol.py)*)
(* Two parties, "Alice" (initiator) and "Bob" (responder), each run their  *)
(* generator; every recv_structured is a suspension point, every           *)
(* send_structured appends to the peer's inbox.                            *)
(***************************************************************************)
EXTENDS Integers, Sequences, FiniteSets, TLC

VARIABLES
    pc,                \* position of each party in its generator
    chan,              \* chan[p]: messages in flight to party p (ordered)
    key,               \* SimpleCascadeReconciliator._key, bits indexed from 0 at key[i+1]
    rng_seed,          \* shared permutation seed (both programs get cascade_seed)
    num_passes,        \* SimpleCascadeReconciliator._num_passes
    initial_block_size,\* SimpleCascadeReconciliator._initial_block_size
    tag_bits,          \* KeyVerifier._tag_bits
    pass_idx,          \* reconcile: pass_idx
    block_size,        \* reconcile: block_size
    local_parities,    \* _run_pass: local_parities
    remote_parities,   \* _run_pass: remote_parities
    mismatched,        \* _run_pass: mismatched_indices
    mpos,              \* _run_pass: position of block_idx in mismatched_indices
    left,              \* _binary_search: left
    right,             \* _binary_search: right
    local_parity,      \* _binary_search: local_parity
    remote_parity,     \* _binary_search: remote_parity
    leakage_bits,      \* SimpleCascadeReconciliator._leakage_bits
    errors_corrected,  \* SimpleCascadeReconciliator._errors_corrected
    leakage_ec,        \* value returned by reconcile() (-1 while it runs)
    salt,              \* _verify_alice: salt / _verify_bob: salt
    remote_tag,        \* _verify_bob: remote_tag
    leakage_ver,       \* KeyVerifier._leakage_bits
    is_verified,       \* value returned by verify(): <<>> while it runs, then <<result>>
    key0,              \* history: the keys the reconciliators were constructed with
    parity_bits_sent,  \* history: parity bits each party has put on the channel
    pass_diff,         \* history: differing positions when the pass's parities were compared
    searched,          \* history: blocks of the current pass a binary search was started for
    search_diff,       \* history: differing positions when the current search started
    search_rounds,     \* history: parity rounds of the current search
    last_search,       \* history: record of the search that finished last
    num_test_bits,     \* QkdProgram._num_test_bits
    basis,             \* run: pairs_info[i].basis, at basis[p][i+1]
    outcome,           \* run: pairs_info[i].outcome, at outcome[p][i+1]
    same_basis,        \* run: indices i with pairs_info[i].same_basis
    test_indices,      \* _estimate_error_rate: test_indices
    sample_qber,       \* run: sample_qber, the fraction num/den
    final_length,      \* run: final_length (-1 until computed)
    final_key,         \* run: final_key, the result's secret_key
    run_result,        \* run: "none" while running, then "success" or the error code
    sock_key,          \* AuthenticatedSocket._key of each party's socket
    intruder,          \* the envelopes an intruder on the channel has copied, and
                       \* the number of messages it may still replace
    sent_msg,          \* history: <<msg>> for the message last given to send_structured
    recv_result,       \* history: <<>>, then the outcome of the recv_structured
                       \* that was observed last
    call_args,         \* the arguments of a library function called on its own
    call_result        \* <<>>, then <<outcome>> of the library function called

vars == <<pc, chan, key, rng_seed, num_passes, initial_block_size, tag_bits,
          pass_idx, block_size, local_parities, remote_parities, mismatched,
          mpos, left, right, local_parity, remote_parity, leakage_bits,
          errors_corrected, leakage_ec, salt, remote_tag, leakage_ver,
          is_verified, key0, parity_bits_sent, pass_diff, searched,
          search_diff, search_rounds, last_search, num_test_bits, basis,
          outcome, same_basis, test_indices, sample_qber, final_length,
          final_key, run_result, sock_key, intruder, sent_msg, recv_result,
          call_args, call_result>>

Party == {"Alice", "Bob"}

Peer(p) == IF p = "Alice" THEN "Bob" ELSE "Alice"

\* is_initiator=True for AliceProgram, False for BobProgram
is_initiator(p) == p = "Alice"

----------------------------------------------------------------------------
(* Bounds of the model *)

MaxKeyLen == 5

MaxErrors == 3

MaxSeed == 1

MaxPasses == 2

MaxBlockArg == 5

----------------------------------------------------------------------------
(* Message headers *)

MSG_PARITIES == "CASCADE_PARITIES"

MSG_SEARCH_REQUEST == "CASCADE_SEARCH"

MSG_SEARCH_RESPONSE == "CASCADE_RESP"

MSG_SEARCH_COMPLETE == "CASCADE_DONE"

MSG_PASS_SYNC == "CASCADE_SYNC"

MSG_VERIFY_HASH == "VERIFY_HASH"

MSG_VERIFY_RESULT == "VERIFY_RESULT"

MSG_PA_SEED == "PA_SEED"

MSG_ALL_MEASURED == "ALL_MEASURED"

BASES_HEADER == "Bases"

TEST_INDICES_HEADER == "Test indices"

TEST_OUTCOMES_HEADER == "Test outcomes"

----------------------------------------------------------------------------
(* Generic helpers *)

Min(a, b) == IF a < b THEN a ELSE b

Max(a, b) == IF a > b THEN a ELSE b

Xor(a, b) == (a + b) % 2

\* XOR of two integers given as sets of bit positions
SetXor(a, b) == (a \ b) \cup (b \ a)

RECURSIVE CeilLog2(_)
CeilLog2(m) == IF m <= 1 THEN 0 ELSE 1 + CeilLog2((m + 1) \div 2)

RECURSIVE FloorLog2(_)
FloorLog2(m) == IF m <= 1 THEN 0 ELSE 1 + FloorLog2(m \div 2)

\* positions (from 0) at which two equally long keys differ
Diff(ka, kb) == {i \in 0..(Len(ka) - 1) : ka[i + 1] # kb[i + 1]}

DiffSet == Diff(key["Alice"], key["Bob"])

\* key with the bit at position i (from 0) flipped: self._key[i] ^= 1
Flip(k, i) == [k EXCEPT ![i + 1] = Xor(k[i + 1], 1)]

RangeOf(s) == {s[i] : i \in 1..Len(s)}

----------------------------------------------------------------------------
(* reconciliation/utils.py (not part of the sources at hand): permutation, *)
(* blocks, parity and block size as the design document describes them     *)

\* permute_indices(length, seed, pass_idx): a permutation of 0..length-1 that
\* is a function of (length, seed, pass_idx) only; a rotation, reflected for
\* odd seeds, stands for the pseudorandom shuffle
permute_indices(n, seed, pass) ==
    [i \in 0..(n - 1) |->
        IF seed % 2 = 0
        THEN (i + seed * (pass + 1)) % n
        ELSE ((n - 1) * i + seed * (pass + 1)) % n]

\* split_into_blocks(length, block_size): contiguous blocks of block_size
\* positions, the last one shorter when block_size does not divide length
split_into_blocks(n, bs) ==
    [k \in 1..((n + bs - 1) \div bs) |->
        [j \in 1..(Min(k * bs, n) - (k - 1) * bs) |-> (k - 1) * bs + j - 1]]

\* compute_parity(key, indices): XOR of the key bits at the given indices
compute_parity(k, block) ==
    Cardinality({j \in 1..Len(block) : k[block[j] + 1] = 1}) % 2

\* compute_optimal_block_size(qber): about one expected error per block;
\* qber is the fraction num/den with num > 0
compute_optimal_block_size(qber) ==
    Max(1, (qber.den + qber.num - 1) \div qber.num)

----------------------------------------------------------------------------
(* reconciliation/simple_cascade.py *)

\* __init__: initial block size from the constructor arguments;
\* arg = 0 stands for initial_block_size=None, qber.den = 0 for estimated_qber=None
InitialBlockSizeOf(arg, qber, n) ==
    IF arg # 0 THEN Max(4, arg)
    ELSE IF qber.den # 0 /\ qber.num > 0 THEN compute_optimal_block_size(qber)
    ELSE Max(4, n \div 4)

\* _run_pass: original_blocks, the blocks of the pass as original key indices
original_blocks_of(n, seed, pass, bs) ==
    LET permutation == permute_indices(n, seed, pass)
        blocks == split_into_blocks(n, bs)
    IN  [k \in 1..Len(blocks) |->
            [j \in 1..Len(blocks[k]) |-> permutation[blocks[k][j]]]]

original_blocks(p) ==
    original_blocks_of(Len(key[p]), rng_seed, pass_idx[p], block_size[p])

\* _run_pass: local_parities = [compute_parity(self._key, block) ...]
LocalParities(p) ==
    LET ob == original_blocks(p)
    IN  [k \in 1..Len(ob) |-> compute_parity(key[p], ob[k])]

\* variant: the comparison of the two parities inverted
BlockMismatch_Inverted(lp, rp) == lp = rp

\* _run_pass: "if lp != rp"
BlockMismatch(lp, rp) == lp # rp

\* _run_pass: indices i (from 0) with lp != rp over zip(local, remote)
RECURSIVE MismatchedFrom(_, _, _)
MismatchedFrom(lp, rp, i) ==
    IF i > Min(Len(lp), Len(rp)) THEN <<>>
    ELSE IF BlockMismatch(lp[i], rp[i]) THEN <<i - 1>> \o MismatchedFrom(lp, rp, i + 1)
    ELSE MismatchedFrom(lp, rp, i + 1)

\* variant: only the first mismatched block of a pass is searched
mismatched_indices_FirstOnly(lp, rp) ==
    LET all == MismatchedFrom(lp, rp, 1)
    IN  IF all = <<>> THEN all ELSE <<all[1]>>

mismatched_indices(lp, rp) == MismatchedFrom(lp, rp, 1)

\* the block the loop "for block_idx in mismatched_indices" is at
CurrentBlock(p) == original_blocks(p)[mismatched[p][mpos[p]] + 1]

\* _binary_search: left_half = block_indices[left:mid]
LeftHalf(block, l, mid) == [j \in 1..(mid - l) |-> block[l + j]]

\* variant: the range is cut after its first index instead of in the middle
MidOf_First(l, r) == l + 1

\* _binary_search: mid = (left + right) // 2
MidOf(l, r) == (l + r) \div 2

Mid(p) == MidOf(left[p], right[p])

----------------------------------------------------------------------------
(* verification/utils.py and verification/polynomial_hash.py               *)
(* A field element is the set of the positions of its one-bits (bit 0 is   *)
(* the least significant), so that 64- and 128-bit values keep their width *)

GF64_MODULUS == {0, 1, 3, 4}

GF128_MODULUS == {0, 1, 2, 7}

gf_modulus(field_bits) == IF field_bits = 64 THEN GF64_MODULUS ELSE GF128_MODULUS

\* variant: a is shifted left without the mask
gf_multiply_step_NoMask(st, field_bits) ==
    IF st.b = {} THEN st
    ELSE LET carry == \E i \in st.a : i >= field_bits - 1
             shifted == {i + 1 : i \in st.a}
         IN  [result |-> IF 0 \in st.b THEN SetXor(st.result, st.a) ELSE st.result,
              b |-> {i - 1 : i \in st.b \ {0}},
              a |-> IF carry THEN SetXor(shifted, gf_modulus(field_bits)) ELSE shifted]

\* gf_multiply: one iteration of the loop "while b" on (a, b, result)
gf_multiply_step(st, field_bits) ==
    IF st.b = {} THEN st
    ELSE LET carry == \E i \in st.a : i >= field_bits - 1
             shifted == {i + 1 : i \in {j \in st.a : j + 1 < field_bits}}
         IN  [result |-> IF 0 \in st.b THEN SetXor(st.result, st.a) ELSE st.result,
              b |-> {i - 1 : i \in st.b \ {0}},
              a |-> IF carry THEN SetXor(shifted, gf_modulus(field_bits)) ELSE shifted]

\* the loop "while b", at most k iterations; the iterations are split in
\* halves to keep the evaluation shallow
RECURSIVE gf_multiply_iter(_, _, _)
gf_multiply_iter(st, k, field_bits) ==
    IF st.b = {} \/ k = 0 THEN st
    ELSE IF k = 1 THEN gf_multiply_step(st, field_bits)
    ELSE gf_multiply_iter(gf_multiply_iter(st, k \div 2, field_bits),
                          k - (k \div 2), field_bits)

\* number of iterations until b is zero: the position of its top bit plus one
BitLength(b) == IF b = {} THEN 0 ELSE 1 + (CHOOSE i \in b : \A j \in b : j <= i)

gf_multiply(a, b, field_bits) ==
    gf_multiply_iter([result |-> {}, b |-> b, a |-> a], BitLength(b), field_bits).result

gf_add(a, b) == SetXor(a, b)

\* chunk_bits + bits_to_int: chunk c (from 1) of element_bits bits, the last
\* one zero-padded, read big-endian
bits_to_field_elements(bits, element_bits) ==
    [c \in 1..((Len(bits) + element_bits - 1) \div element_bits) |->
        {element_bits - 1 - o : o \in
            {x \in 0..(element_bits - 1) :
                /\ (c - 1) * element_bits + x < Len(bits)
                /\ bits[(c - 1) * element_bits + x + 1] = 1}}]

\* compute_polynomial_hash: the loop "for i in range(1, len(elements))"
RECURSIVE horner(_, _, _, _, _)
horner(elements, i, result, s, field_bits) ==
    IF i > Len(elements) THEN result
    ELSE horner(elements, i + 1,
                gf_add(gf_multiply(result, s, field_bits), elements[i]),
                s, field_bits)

\* compute_polynomial_hash(key, salt, field_bits) for a non-empty key and a
\* non-zero salt (element_bits defaults to field_bits)
compute_polynomial_hash(k, s, field_bits) ==
    LET elements == bits_to_field_elements(k, field_bits)
    IN  IF elements = <<>> THEN {}
        ELSE gf_multiply(horner(elements, 2, elements[1], s, field_bits),
                         s, field_bits)

\* generate_random_field_element: values the random bits may give; the loop
\* draws again while the value is zero
RandomFieldValues(field_bits) ==
    {{}, {1}, {field_bits - 1}}

\* variant: the first value drawn is returned, zero included
generate_random_field_element_FirstDraw(field_bits) ==
    RandomFieldValues(field_bits)

generate_random_field_element(field_bits) ==
    {v \in RandomFieldValues(field_bits) : v # {}}

----------------------------------------------------------------------------
(* Channel: auth/socket.py, AuthenticatedSocket over the classical socket  *)

\* a Python object: its type and its value
PyObject(t, v) == [type |-> t, value |-> v]

\* the type of the payload the programs build for a header: a list of
\* parities, bases, indices, outcomes or seed bits, a dict, an int, or None
payload_type(h) ==
    IF h \in {MSG_PARITIES, MSG_PA_SEED, BASES_HEADER, TEST_INDICES_HEADER,
              TEST_OUTCOMES_HEADER}
    THEN "list"
    ELSE IF h \in {MSG_SEARCH_REQUEST, MSG_SEARCH_RESPONSE, MSG_VERIFY_HASH,
                   MSG_VERIFY_RESULT}
    THEN "dict"
    ELSE IF h \in {MSG_SEARCH_COMPLETE, MSG_PASS_SYNC}
    THEN "int"
    ELSE "NoneType"

\* StructuredMessage(header, payload)
Msg(h, pl) == [header |-> h, payload |-> PyObject(payload_type(h), pl)]

\* json.dumps: what a Python type is written as; lists and tuples are both
\* written as arrays, what is not a JSON type is written as str(...)
JsonKind(t) ==
    IF t \in {"list", "tuple"} THEN "array"
    ELSE IF t = "dict" THEN "object"
    ELSE IF t = "int" THEN "number"
    ELSE IF t = "NoneType" THEN "null"
    ELSE "string"

\* _serialize_payload: the JSON text of the payload
serialize_payload(payload) ==
    [json |-> JsonKind(payload.type), text |-> payload.value]

\* send_structured / recv_structured: header_bytes + b"|" + payload_bytes
data_to_sign(header, payload) ==
    [header |-> header, payload_bytes |-> serialize_payload(payload)]

\* _compute_hmac: the HMAC-SHA256 tag, a byte string; tags are equal exactly
\* when keys and data are (no collisions of HMAC-SHA256)
compute_hmac(k, data) == [type |-> "bytes", key |-> k, data |-> data]

\* hmac.compare_digest(received_tag, expected_tag)
compare_digest(a, b) ==
    /\ a.key = b.key
    /\ a.data.header = b.data.header
    /\ a.data.payload_bytes.json = b.data.payload_bytes.json
    /\ a.data.payload_bytes.text = b.data.payload_bytes.text

\* variant: the tag covers the payload only, the receiver checks both
send_structured_PayloadOnly(k, msg) ==
    [header |-> msg.header,
     ptype |-> "tuple",
     payload |-> <<msg.payload, compute_hmac(k, data_to_sign("", msg.payload))>>]

\* send_structured: the envelope StructuredMessage(header, (payload, tag));
\* ptype is the type of the envelope's payload
send_structured(k, msg) ==
    [header |-> msg.header,
     ptype |-> "tuple",
     payload |-> <<msg.payload,
                   compute_hmac(k, data_to_sign(msg.header, msg.payload))>>]

\* what recv_structured raises
RecvError(e) == [status |-> e, msg |-> <<>>]

\* variant: a tag that is not a byte string is compared like any other
recv_structured_NoTagType(k, envelope) ==
    IF envelope.ptype \notin {"tuple", "list"} \/ Len(envelope.payload) # 2
    THEN RecvError("SecurityError")
    ELSE IF envelope.payload[2].type # "bytes"
            \/ ~compare_digest(envelope.payload[2],
                    compute_hmac(k, data_to_sign(envelope.header,
                                                 envelope.payload[1])))
    THEN RecvError("IntegrityError")
    ELSE [status |-> "ok",
          msg |-> <<[header |-> envelope.header, payload |-> envelope.payload[1]]>>]

\* recv_structured once the envelope has arrived: the shape of the envelope,
\* the type of the tag, the tag; then StructuredMessage(header, payload)
recv_structured(k, envelope) ==
    IF envelope.ptype \notin {"tuple", "list"} \/ Len(envelope.payload) # 2
    THEN RecvError("SecurityError")
    ELSE IF envelope.payload[2].type # "bytes"
    THEN RecvError("SecurityError")
    ELSE IF ~compare_digest(envelope.payload[2],
                compute_hmac(k, data_to_sign(envelope.header,
                                             envelope.payload[1])))
    THEN RecvError("IntegrityError")
    ELSE [status |-> "ok",
          msg |-> <<[header |-> envelope.header, payload |-> envelope.payload[1]]>>]

\* send_structured never blocks: the envelope joins the peer's inbox
Send(p, m) ==
    chan' = [chan EXCEPT ![Peer(p)] = Append(@, send_structured(sock_key[p], m))]

\* recv_structured resumes the generator once an envelope has arrived, and
\* returns to it if the envelope passes the checks
CanRecv(p) ==
    /\ chan[p] # <<>>
    /\ recv_structured(sock_key[p], Head(chan[p])).status = "ok"

\* the message recv_structured returns: the header, and the payload's value
Received(p) ==
    [header |-> Head(chan[p]).header,
     payload |-> Head(chan[p]).payload[1].value]

Recv(p) == chan' = [chan EXCEPT ![p] = Tail(@)]

\* the sockets' keys, the intruder, and the history of the socket calls
authVars == <<sock_key, intruder, sent_msg, recv_result>>

\* the call of a library function outside a session
callVars == <<call_args, call_result>>

\* the locals of run() outside reconciliation and verification
progVars == <<num_test_bits, basis, outcome, same_basis, test_indices,
              sample_qber, final_length, final_key, run_result, authVars,
              callVars>>

\* what reconcile() and verify() leave alone
cfgVars == <<rng_seed, num_passes, initial_block_size, tag_bits, key0, progVars>>

passVars == <<pass_idx, block_size>>

parityVars == <<local_parities, remote_parities>>

blockVars == <<mismatched, mpos, pass_diff, searched>>

searchVars == <<left, right, local_parity, remote_parity>>

countVars == <<leakage_bits, errors_corrected>>

verifyVars == <<salt, remote_tag, leakage_ver, is_verified>>

searchHist == <<search_diff, search_rounds, last_search>>

----------------------------------------------------------------------------
(* SimpleCascadeReconciliator.reconcile / _run_pass                        *)

\* variant: the loop runs one pass too many
MorePasses_OffByOne(p) == pass_idx[p] <= num_passes

\* reconcile: one more iteration of "for pass_idx in range(self._num_passes)"
MorePasses(p) == pass_idx[p] < num_passes

\* variant: the responder, too, sends its parities before it receives
RunPassBegin_SendFirst(p) ==
    /\ pc[p] = "rc_loop"
    /\ MorePasses(p)
    /\ local_parities' = [local_parities EXCEPT ![p] = LocalParities(p)]
    /\ pc' = [pc EXCEPT ![p] = "par_send"]
    /\ UNCHANGED <<chan, key, cfgVars, passVars, remote_parities, blockVars,
                   searchVars, countVars, leakage_ec, verifyVars,
                   parity_bits_sent, searchHist>>

\* variant: the initiator, too, waits for the peer's parities first
RunPassBegin_RecvFirst(p) ==
    /\ pc[p] = "rc_loop"
    /\ MorePasses(p)
    /\ local_parities' = [local_parities EXCEPT ![p] = LocalParities(p)]
    /\ pc' = [pc EXCEPT ![p] = "par_recv"]
    /\ UNCHANGED <<chan, key, cfgVars, passVars, remote_parities, blockVars,
                   searchVars, countVars, leakage_ec, verifyVars,
                   parity_bits_sent, searchHist>>

\* _run_pass, up to the parity exchange: blocks and local parities
RunPassBegin(p) ==
    /\ pc[p] = "rc_loop"
    /\ MorePasses(p)
    /\ local_parities' = [local_parities EXCEPT ![p] = LocalParities(p)]
    /\ pc' = [pc EXCEPT ![p] = IF is_initiator(p) THEN "par_send" ELSE "par_recv"]
    /\ UNCHANGED <<chan, key, cfgVars, passVars, remote_parities, blockVars,
                   searchVars, countVars, leakage_ec, verifyVars,
                   parity_bits_sent, searchHist>>

\* reconcile: return self._leakage_bits
ReconcileReturn(p) ==
    /\ pc[p] = "rc_loop"
    /\ ~MorePasses(p)
    /\ leakage_ec' = [leakage_ec EXCEPT ![p] = leakage_bits[p]]
    /\ pc' = [pc EXCEPT ![p] = "rc_done"]
    /\ UNCHANGED <<chan, key, cfgVars, passVars, parityVars, blockVars,
                   searchVars, countVars, verifyVars, parity_bits_sent,
                   searchHist>>

\* variant: one bit per pass instead of one per block
PassLeakage_PerPass(p) == 1

\* _run_pass: self._leakage_bits += len(original_blocks)
PassLeakage(p) == Len(original_blocks(p))

\* _run_pass after the exchange: leakage, mismatched blocks, start of the
\* loop over them
AfterParities(p, rp) ==
    /\ leakage_bits' = [leakage_bits EXCEPT ![p] = @ + PassLeakage(p)]
    /\ mismatched' = [mismatched EXCEPT ![p] =
                         mismatched_indices(local_parities[p], rp)]
    /\ mpos' = [mpos EXCEPT ![p] = 1]
    /\ pass_diff' = [pass_diff EXCEPT ![p] = DiffSet]
    /\ searched' = [searched EXCEPT ![p] = {}]
    /\ pc' = [pc EXCEPT ![p] = "blk_loop"]

\* _run_pass: send_structured(StructuredMessage(MSG_PARITIES, local_parities))
ParitiesSend(p) ==
    /\ pc[p] = "par_send"
    /\ Send(p, Msg(MSG_PARITIES, local_parities[p]))
    /\ parity_bits_sent' = [parity_bits_sent EXCEPT ![p] = @ + Len(local_parities[p])]
    /\ IF is_initiator(p)
       THEN /\ pc' = [pc EXCEPT ![p] = "par_recv"]
            /\ UNCHANGED <<leakage_bits, blockVars>>
       ELSE AfterParities(p, remote_parities[p])
    /\ UNCHANGED <<key, cfgVars, passVars, parityVars, searchVars,
                   errors_corrected, leakage_ec, verifyVars, searchHist>>

\* _run_pass: response = yield from recv_structured(); remote_parities = payload
ParitiesRecv(p) ==
    /\ pc[p] = "par_recv"
    /\ CanRecv(p)
    /\ Recv(p)
    /\ remote_parities' = [remote_parities EXCEPT ![p] = Received(p).payload]
    /\ IF is_initiator(p)
       THEN AfterParities(p, Received(p).payload)
       ELSE /\ pc' = [pc EXCEPT ![p] = "par_send"]
            /\ UNCHANGED <<leakage_bits, blockVars>>
    /\ UNCHANGED <<key, cfgVars, passVars, local_parities, searchVars,
                   errors_corrected, leakage_ec, verifyVars, parity_bits_sent,
                   searchHist>>

\* variant: the located bit is counted but flipped by neither party
FlipsBit_Never(p) == FALSE

\* variant: both parties flip the located bit
FlipsBit_Both(p) == TRUE

\* _binary_search: "if self._is_initiator: self._key[...] ^= 1"
FlipsBit(p) == is_initiator(p)

\* variant: only the initiator, which flips the bit, counts the error
CountError_InitiatorOnly(p, count) ==
    IF is_initiator(p) THEN count + 1 ELSE count

\* _binary_search: "self._errors_corrected += 1" ("Both parties track the
\* error count")
CountError(p, count) == count + 1

\* record of a finished search, for the history variable last_search
SearchRecord(p, block, error_idx, newkeys) ==
    [party |-> p,
     block |-> block,
     rounds |-> search_rounds[p],
     diff0 |-> search_diff[p] \cap RangeOf(block),
     error_idx |-> error_idx,
     diff1 |-> Diff(newkeys["Alice"], newkeys["Bob"]) \cap RangeOf(block)]

\* _run_pass: next block_idx of "for block_idx in mismatched_indices", and
\* _binary_search up to its loop (empty block, single-bit block, bounds)
BlockLoop(p) ==
    /\ pc[p] = "blk_loop"
    /\ mpos[p] <= Len(mismatched[p])
    /\ LET block == CurrentBlock(p)
           newkeys == IF Len(block) = 1 /\ FlipsBit(p)
                      THEN [key EXCEPT ![p] = Flip(@, block[1])]
                      ELSE key
       IN  /\ searched' = [searched EXCEPT ![p] = @ \cup {mismatched[p][mpos[p]]}]
           /\ key' = newkeys
           /\ IF Len(block) = 0
              THEN /\ mpos' = [mpos EXCEPT ![p] = @ + 1]
                   /\ UNCHANGED <<pc, left, right, errors_corrected, searchHist>>
              ELSE IF Len(block) = 1
              THEN /\ errors_corrected' =
                          [errors_corrected EXCEPT ![p] = CountError(p, @)]
                   /\ mpos' = [mpos EXCEPT ![p] = @ + 1]
                   /\ search_diff' = [search_diff EXCEPT ![p] = DiffSet]
                   /\ search_rounds' = [search_rounds EXCEPT ![p] = 0]
                   /\ last_search' = [last_search EXCEPT ![p] =
                          [SearchRecord(p, block, block[1], newkeys)
                              EXCEPT !.rounds = 0,
                                     !.diff0 = DiffSet \cap RangeOf(block)]]
                   /\ UNCHANGED <<pc, left, right>>
              ELSE /\ left' = [left EXCEPT ![p] = 0]
                   /\ right' = [right EXCEPT ![p] = Len(block)]
                   /\ search_diff' = [search_diff EXCEPT ![p] = DiffSet]
                   /\ search_rounds' = [search_rounds EXCEPT ![p] = 0]
                   /\ pc' = [pc EXCEPT ![p] = "bs_loop"]
                   /\ UNCHANGED <<mpos, errors_corrected, last_search>>
    /\ UNCHANGED <<chan, cfgVars, passVars, parityVars, mismatched, pass_diff,
                   local_parity, remote_parity, leakage_bits, leakage_ec,
                   verifyVars, parity_bits_sent>>

\* _run_pass: the loop over the mismatched blocks is over, on to the sync point
BlocksDone(p) ==
    /\ pc[p] = "blk_loop"
    /\ mpos[p] > Len(mismatched[p])
    /\ pc' = [pc EXCEPT ![p] = IF is_initiator(p) THEN "sync_send" ELSE "sync_recv"]
    /\ UNCHANGED <<chan, key, cfgVars, passVars, parityVars, blockVars,
                   searchVars, countVars, leakage_ec, verifyVars,
                   parity_bits_sent, searchHist>>

----------------------------------------------------------------------------
(* SimpleCascadeReconciliator._binary_search                               *)

\* _binary_search: "while right - left > 1"
SearchContinues(l, r) == r - l > 1

\* _binary_search: mid and the parity of block_indices[left:mid]
SearchStep(p) ==
    /\ pc[p] = "bs_loop"
    /\ SearchContinues(left[p], right[p])
    /\ local_parity' = [local_parity EXCEPT ![p] =
           compute_parity(key[p], LeftHalf(CurrentBlock(p), left[p], Mid(p)))]
    /\ pc' = [pc EXCEPT ![p] = IF is_initiator(p) THEN "bs_send" ELSE "bs_recv"]
    /\ UNCHANGED <<chan, key, cfgVars, passVars, parityVars, blockVars, left,
                   right, remote_parity, countVars, leakage_ec, verifyVars,
                   parity_bits_sent, searchHist>>

\* variant: the search continues in the half whose parities agree
SearchNarrow_Swapped(l, r, lpar, rpar) ==
    IF lpar = rpar
    THEN [left |-> l, right |-> MidOf(l, r)]
    ELSE [left |-> MidOf(l, r), right |-> r]

\* _binary_search: "if local_parity != remote_parity: right = mid else: left = mid"
SearchNarrow(l, r, lpar, rpar) ==
    IF lpar # rpar
    THEN [left |-> l, right |-> MidOf(l, r)]
    ELSE [left |-> MidOf(l, r), right |-> r]

\* _binary_search after one parity exchange: leakage and the new range
AfterSearchParity(p, rpar) ==
    LET range == SearchNarrow(left[p], right[p], local_parity[p], rpar)
    IN  /\ leakage_bits' = [leakage_bits EXCEPT ![p] = @ + 1]
        /\ search_rounds' = [search_rounds EXCEPT ![p] = @ + 1]
        /\ left' = [left EXCEPT ![p] = range.left]
        /\ right' = [right EXCEPT ![p] = range.right]
        /\ pc' = [pc EXCEPT ![p] = "bs_loop"]

\* _binary_search: send the parity of the left half (request or response)
SearchParitySend(p) ==
    /\ pc[p] = "bs_send"
    /\ Send(p, Msg(IF is_initiator(p) THEN MSG_SEARCH_REQUEST ELSE MSG_SEARCH_RESPONSE,
                   [indices |-> LeftHalf(CurrentBlock(p), left[p], Mid(p)),
                    parity |-> local_parity[p]]))
    /\ parity_bits_sent' = [parity_bits_sent EXCEPT ![p] = @ + 1]
    /\ IF is_initiator(p)
       THEN /\ pc' = [pc EXCEPT ![p] = "bs_recv"]
            /\ UNCHANGED <<left, right, leakage_bits, search_rounds>>
       ELSE AfterSearchParity(p, remote_parity[p])
    /\ UNCHANGED <<key, cfgVars, passVars, parityVars, blockVars, local_parity,
                   remote_parity, errors_corrected, leakage_ec, verifyVars,
                   search_diff, last_search>>

\* _binary_search: remote_parity = response.payload["parity"]
SearchParityRecv(p) ==
    /\ pc[p] = "bs_recv"
    /\ CanRecv(p)
    /\ Recv(p)
    /\ remote_parity' = [remote_parity EXCEPT ![p] = Received(p).payload.parity]
    /\ IF is_initiator(p)
       THEN AfterSearchParity(p, Received(p).payload.parity)
       ELSE /\ pc' = [pc EXCEPT ![p] = "bs_send"]
            /\ UNCHANGED <<left, right, leakage_bits, search_rounds>>
    /\ UNCHANGED <<key, cfgVars, passVars, parityVars, blockVars, local_parity,
                   errors_corrected, leakage_ec, verifyVars, parity_bits_sent,
                   search_diff, last_search>>

\* variant: the first position of the block is taken for the error
ErrorIdx_First(p) == CurrentBlock(p)[1]

\* _binary_search: error_idx = block_indices[left]
ErrorIdx(p) == CurrentBlock(p)[left[p] + 1]

\* _binary_search, "Found the error": the initiator flips, both count
SearchFound(p) ==
    /\ pc[p] = "bs_loop"
    /\ ~SearchContinues(left[p], right[p])
    /\ LET newkeys == IF FlipsBit(p)
                      THEN [key EXCEPT ![p] = Flip(@, ErrorIdx(p))]
                      ELSE key
       IN  /\ key' = newkeys
           /\ last_search' = [last_search EXCEPT ![p] =
                  SearchRecord(p, CurrentBlock(p), ErrorIdx(p), newkeys)]
    /\ errors_corrected' = [errors_corrected EXCEPT ![p] = CountError(p, @)]
    /\ pc' = [pc EXCEPT ![p] = IF is_initiator(p) THEN "done_send" ELSE "done_recv"]
    /\ UNCHANGED <<chan, cfgVars, passVars, parityVars, blockVars, searchVars,
                   leakage_bits, leakage_ec, verifyVars, parity_bits_sent,
                   search_diff, search_rounds>>

\* _binary_search returns: _run_pass moves to the next mismatched block
SearchReturn(p) ==
    /\ mpos' = [mpos EXCEPT ![p] = @ + 1]
    /\ pc' = [pc EXCEPT ![p] = "blk_loop"]

\* _binary_search: send_structured(StructuredMessage(MSG_SEARCH_COMPLETE, error_idx))
SearchCompleteSend(p) ==
    /\ pc[p] = "done_send"
    /\ Send(p, Msg(MSG_SEARCH_COMPLETE, ErrorIdx(p)))
    /\ IF is_initiator(p)
       THEN /\ pc' = [pc EXCEPT ![p] = "done_recv"]
            /\ UNCHANGED mpos
       ELSE SearchReturn(p)
    /\ UNCHANGED <<key, cfgVars, passVars, parityVars, mismatched, pass_diff,
                   searched, searchVars, countVars, leakage_ec, verifyVars,
                   parity_bits_sent, searchHist>>

\* _binary_search: yield from recv_structured() of the completion signal
SearchCompleteRecv(p) ==
    /\ pc[p] = "done_recv"
    /\ CanRecv(p)
    /\ Recv(p)
    /\ IF is_initiator(p)
       THEN SearchReturn(p)
       ELSE /\ pc' = [pc EXCEPT ![p] = "done_send"]
            /\ UNCHANGED mpos
    /\ UNCHANGED <<key, cfgVars, passVars, parityVars, mismatched, pass_diff,
                   searched, searchVars, countVars, leakage_ec, verifyVars,
                   parity_bits_sent, searchHist>>

----------------------------------------------------------------------------
(* _run_pass: sync point; reconcile: block_size *= 2                       *)

\* variant: every pass uses the block size of the first
NextBlockSize_Constant(bs) == bs

\* reconcile: block size of the pass after one of block size bs
NextBlockSize(bs) == bs * 2

\* _run_pass returns: next iteration of the loop in reconcile
PassReturn(p) ==
    /\ pass_idx' = [pass_idx EXCEPT ![p] = @ + 1]
    /\ block_size' = [block_size EXCEPT ![p] = NextBlockSize(@)]
    /\ pc' = [pc EXCEPT ![p] = "rc_loop"]

\* _run_pass: send_structured(StructuredMessage(MSG_PASS_SYNC, pass_index))
PassSyncSend(p) ==
    /\ pc[p] = "sync_send"
    /\ Send(p, Msg(MSG_PASS_SYNC, pass_idx[p]))
    /\ IF is_initiator(p)
       THEN /\ pc' = [pc EXCEPT ![p] = "sync_recv"]
            /\ UNCHANGED passVars
       ELSE PassReturn(p)
    /\ UNCHANGED <<key, cfgVars, parityVars, blockVars, searchVars, countVars,
                   leakage_ec, verifyVars, parity_bits_sent, searchHist>>

\* _run_pass: response = yield from recv_structured() at the sync point
PassSyncRecv(p) ==
    /\ pc[p] = "sync_recv"
    /\ CanRecv(p)
    /\ Recv(p)
    /\ IF is_initiator(p)
       THEN PassReturn(p)
       ELSE /\ pc' = [pc EXCEPT ![p] = "sync_send"]
            /\ UNCHANGED passVars
    /\ UNCHANGED <<key, cfgVars, parityVars, blockVars, searchVars, countVars,
                   leakage_ec, verifyVars, parity_bits_sent, searchHist>>

----------------------------------------------------------------------------
(* verification/verifier.py: KeyVerifier.verify                            *)

cascadeVars == <<passVars, parityVars, blockVars, searchVars, countVars,
                 leakage_ec, parity_bits_sent, searchHist>>

\* variant: the leakage is counted in bytes
VerifyLeakage_Bytes(bits) == bits \div 8

\* _verify_alice, _verify_bob: self._leakage_bits += self._tag_bits
VerifyLeakage(bits) == bits

\* _verify_alice up to the recv: salt, local tag, VERIFY_HASH, leakage
VerifyAliceSend(p) ==
    /\ pc[p] = "rc_done"
    /\ is_initiator(p)
    /\ IF key[p] = <<>>
       THEN /\ pc' = [pc EXCEPT ![p] = "raised"]
            /\ UNCHANGED <<chan, salt, leakage_ver>>
       ELSE \E s \in generate_random_field_element(tag_bits) :
            /\ salt' = [salt EXCEPT ![p] = s]
            /\ Send(p, Msg(MSG_VERIFY_HASH,
                       [salt |-> s,
                        tag |-> compute_polynomial_hash(key[p], s, tag_bits)]))
            /\ leakage_ver' = [leakage_ver EXCEPT ![p] = @ + VerifyLeakage(tag_bits)]
            /\ pc' = [pc EXCEPT ![p] = "vf_recv"]
    /\ UNCHANGED <<key, cfgVars, cascadeVars, remote_tag, is_verified>>

\* verify(is_alice=False): _verify_bob starts by waiting for VERIFY_HASH
VerifyBobEnter(p) ==
    /\ pc[p] = "rc_done"
    /\ ~is_initiator(p)
    /\ pc' = [pc EXCEPT ![p] = "vf_recv"]
    /\ UNCHANGED <<chan, key, cfgVars, cascadeVars, verifyVars>>

\* variant: the initiator does not read the responder's answer
AliceResult_Ignored(payload) == TRUE

\* _verify_alice: result = response.payload.get("match", False)
AliceResult(payload) == payload.match

\* _verify_alice after the recv: header check, result
VerifyAliceRecv(p) ==
    /\ pc[p] = "vf_recv"
    /\ is_initiator(p)
    /\ CanRecv(p)
    /\ Recv(p)
    /\ IF Received(p).header # MSG_VERIFY_RESULT
       THEN /\ pc' = [pc EXCEPT ![p] = "raised"]
            /\ UNCHANGED is_verified
       ELSE /\ is_verified' = [is_verified EXCEPT ![p] =
                                  <<AliceResult(Received(p).payload)>>]
            /\ pc' = [pc EXCEPT ![p] = "vf_done"]
    /\ UNCHANGED <<key, cfgVars, cascadeVars, salt, remote_tag, leakage_ver>>

\* variant: the responder reports a match without comparing the tags
BobMatch_Always(k, s, rtag, field_bits) == TRUE

\* variant: only the lowest bit of the two tags is compared
BobMatch_LowBit(k, s, rtag, field_bits) ==
    (0 \in compute_polynomial_hash(k, s, field_bits)) = (0 \in rtag)

\* _verify_bob: match = local_tag == remote_tag
BobMatch(k, s, rtag, field_bits) == compute_polynomial_hash(k, s, field_bits) = rtag

\* _verify_bob after the recv: header check, salt and tag, comparison, leakage
VerifyBobRecv(p) ==
    /\ pc[p] = "vf_recv"
    /\ ~is_initiator(p)
    /\ CanRecv(p)
    /\ Recv(p)
    /\ IF Received(p).header # MSG_VERIFY_HASH \/ key[p] = <<>>
       THEN /\ pc' = [pc EXCEPT ![p] = "raised"]
            /\ UNCHANGED <<salt, remote_tag, leakage_ver>>
       ELSE /\ salt' = [salt EXCEPT ![p] = Received(p).payload.salt]
            /\ remote_tag' = [remote_tag EXCEPT ![p] = Received(p).payload.tag]
            /\ leakage_ver' = [leakage_ver EXCEPT ![p] = @ + VerifyLeakage(tag_bits)]
            /\ pc' = [pc EXCEPT ![p] = "vf_send"]
    /\ UNCHANGED <<key, cfgVars, cascadeVars, is_verified>>

\* _verify_bob: send VERIFY_RESULT and return match
VerifyBobSend(p) ==
    /\ pc[p] = "vf_send"
    /\ LET match == BobMatch(key[p], salt[p], remote_tag[p], tag_bits)
       IN  /\ Send(p, Msg(MSG_VERIFY_RESULT, [match |-> match]))
           /\ is_verified' = [is_verified EXCEPT ![p] = <<match>>]
    /\ pc' = [pc EXCEPT ![p] = "vf_done"]
    /\ UNCHANGED <<key, cfgVars, cascadeVars, salt, remote_tag, leakage_ver>>

----------------------------------------------------------------------------
(* Reconciliation followed by verification, started from a pair of keys    *)

\* no intruder: no envelope copied, no message to be replaced
NoIntruder == [knows |-> {}, attacks |-> 0]

\* both sockets constructed with the shared authentication key, no intruder
\* on the channel
SocketsIdle ==
    /\ sock_key = [p \in Party |-> "k1"]
    /\ intruder = NoIntruder
    /\ sent_msg = [p \in Party |-> <<>>]
    /\ recv_result = [p \in Party |-> <<>>]

\* no library function is called on its own
NoCall == call_args = <<>> /\ call_result = <<>>

\* keys of length n of the responder: all zero, or alternating
ResponderKeys(n) == {[i \in 1..n |-> 0], [i \in 1..n |-> i % 2]}

\* error patterns: at most MaxErrors flipped positions
ErrorSets(n) == {e \in SUBSET (0..(n - 1)) : Cardinality(e) <= MaxErrors}

WithErrors(k, e) == [i \in 1..Len(k) |-> IF (i - 1) \in e THEN Xor(k[i], 1) ELSE k[i]]

NoSearch == [party |-> "none", block |-> <<>>, rounds |-> 0, diff0 |-> {},
             error_idx |-> -1, diff1 |-> {}]

NoQber == [num |-> 0, den |-> 0]

\* the two reconciliators and verifiers constructed: keys of n bits that
\* differ at the positions e, the block size argument arg
ReconcileStart(n, kb, e, arg) ==
    /\ key = [p \in Party |-> IF p = "Bob" THEN kb ELSE WithErrors(kb, e)]
    /\ key0 = key
    /\ rng_seed \in 0..MaxSeed
    /\ num_passes \in 1..MaxPasses
    /\ initial_block_size = InitialBlockSizeOf(arg, NoQber, n)
    /\ tag_bits \in {64, 128}
    /\ pc = [p \in Party |-> "rc_loop"]
    /\ NoCall
    /\ chan = [p \in Party |-> <<>>]
    /\ pass_idx = [p \in Party |-> 0]
    /\ block_size = [p \in Party |-> initial_block_size]
    /\ local_parities = [p \in Party |-> <<>>]
    /\ remote_parities = [p \in Party |-> <<>>]
    /\ mismatched = [p \in Party |-> <<>>]
    /\ mpos = [p \in Party |-> 1]
    /\ left = [p \in Party |-> 0]
    /\ right = [p \in Party |-> 0]
    /\ local_parity = [p \in Party |-> 0]
    /\ remote_parity = [p \in Party |-> 0]
    /\ leakage_bits = [p \in Party |-> 0]
    /\ errors_corrected = [p \in Party |-> 0]
    /\ leakage_ec = [p \in Party |-> -1]
    /\ salt = [p \in Party |-> {}]
    /\ remote_tag = [p \in Party |-> {}]
    /\ leakage_ver = [p \in Party |-> 0]
    /\ is_verified = [p \in Party |-> <<>>]
    /\ parity_bits_sent = [p \in Party |-> 0]
    /\ pass_diff = [p \in Party |-> {}]
    /\ searched = [p \in Party |-> {}]
    /\ search_diff = [p \in Party |-> {}]
    /\ search_rounds = [p \in Party |-> 0]
    /\ last_search = [p \in Party |-> NoSearch]
    /\ num_test_bits = 0
    /\ basis = [p \in Party |-> <<>>]
    /\ outcome = [p \in Party |-> <<>>]
    /\ same_basis = [p \in Party |-> {}]
    /\ test_indices = [p \in Party |-> {}]
    /\ sample_qber = [p \in Party |-> NoQber]
    /\ final_length = [p \in Party |-> -1]
    /\ final_key = [p \in Party |-> <<>>]
    /\ run_result = [p \in Party |-> "none"]

InitReconcile ==
    \E n \in 1..MaxKeyLen :
    \E kb \in ResponderKeys(n) :
    \E e \in ErrorSets(n) :
    \E arg \in {0, 3, MaxBlockArg} :
        /\ ReconcileStart(n, kb, e, arg)
        /\ SocketsIdle

CascadeStep(p) ==
    \/ RunPassBegin(p)
    \/ ReconcileReturn(p)
    \/ ParitiesSend(p)
    \/ ParitiesRecv(p)
    \/ BlockLoop(p)
    \/ BlocksDone(p)
    \/ SearchStep(p)
    \/ SearchParitySend(p)
    \/ SearchParityRecv(p)
    \/ SearchFound(p)
    \/ SearchCompleteSend(p)
    \/ SearchCompleteRecv(p)
    \/ PassSyncSend(p)
    \/ PassSyncRecv(p)

VerifyStep(p) ==
    \/ VerifyAliceSend(p)
    \/ VerifyBobEnter(p)
    \/ VerifyAliceRecv(p)
    \/ VerifyBobRecv(p)
    \/ VerifyBobSend(p)

NextReconcile == \E p \in Party : CascadeStep(p) \/ VerifyStep(p)

SpecReconcile == InitReconcile /\ [][NextReconcile]_vars

CascadeNext == \E p \in Party : CascadeStep(p)

\* the scheduler resumes a reconcile generator whenever it can continue
FairReconcile == SpecReconcile /\ WF_vars(CascadeNext)

----------------------------------------------------------------------------
(* core/constants.py and the message headers of core/protocol.py           *)

\* QBER_THRESHOLD = 0.11, as a fraction
QBER_THRESHOLD == [num |-> 11, den |-> 100]

MIN_KEY_LENGTH == 32

DEFAULT_NUM_PASSES == 4

DEFAULT_CASCADE_SEED == 42

----------------------------------------------------------------------------
(* privacy/estimation.py, privacy/entropy.py, privacy/utils.py,            *)
(* privacy/amplifier.py                                                    *)

\* estimate_qber_from_cascade: total_errors / total_bits
estimate_qber_from_cascade(total_bits, sample_errors, cascade_errors) ==
    [num |-> sample_errors + cascade_errors, den |-> total_bits]

\* is_qber_secure: qber < threshold
is_qber_secure(qber) ==
    qber.num * QBER_THRESHOLD.den < QBER_THRESHOLD.num * qber.den

\* floor(n * secrecy_capacity(e / n) - compute_security_margin(1e-12)) with
\* binary_entropy and the margin 2*log2(1/epsilon) evaluated in floating
\* point, at DevetakWinterFloor[n][e + 1] for the key lengths n of the
\* sessions and of the calls below and every e with e / n < 0.11
DevetakWinterFloor ==
    (32 :> <<-48, -55, -59, -63>>)
        @@ (100 :> <<20, 12, 6, 0, -4, -9, -13, -17, -20, -24, -27>>)
        @@ (160 :> <<80, 71, 64, 58, 53, 48, 43, 38, 34, 30, 26, 22, 18, 15,
                     11, 8, 5, 2>>)
        @@ (224 :> <<144, 135, 127, 121, 115, 109, 104, 99, 94, 89, 85, 80,
                     76, 72, 68, 64, 61, 57, 53, 50, 47, 43, 40, 37, 34>>)

\* compute_final_key_length raises ValueError: qber outside [0, 0.5]
final_key_length_raises(qber) == 2 * qber.num > qber.den

\* variant: the floor of the Devetak-Winter value is returned as it is
compute_final_key_length_NoClamp(reconciled_length, qber, leak_ec, leak_ver) ==
    IF ~is_qber_secure(qber) THEN 0
    ELSE DevetakWinterFloor[reconciled_length][qber.num + 1]
             - leak_ec - leak_ver

\* compute_final_key_length with epsilon_sec = SECURITY_PARAMETER and
\* efficiency_factor = 1.0
compute_final_key_length(reconciled_length, qber, leak_ec, leak_ver) ==
    IF ~is_qber_secure(qber) THEN 0
    ELSE Max(0, DevetakWinterFloor[reconciled_length][qber.num + 1]
                    - leak_ec - leak_ver)

\* generate_toeplitz_seed: the random bit lists of the given length the
\* model draws from: all ones, and alternating
generate_toeplitz_seed(key_length, final_len) ==
    {[i \in 1..(key_length + final_len - 1) |-> 1],
     [i \in 1..(key_length + final_len - 1) |-> i % 2]}

\* variant: an output longer than the key is not rejected
amplify_raises_NoUpperBound(k, toeplitz_seed, new_length) ==
    \/ k = <<>>
    \/ new_length <= 0
    \/ Len(toeplitz_seed) # Len(k) + new_length - 1

\* variant: an output length of zero or less is not rejected
amplify_raises_NonPositiveAllowed(k, toeplitz_seed, new_length) ==
    \/ k = <<>>
    \/ new_length > Len(k)
    \/ Len(toeplitz_seed) # Len(k) + new_length - 1

\* amplify raises ValueError
amplify_raises(k, toeplitz_seed, new_length) ==
    \/ k = <<>>
    \/ new_length <= 0
    \/ new_length > Len(k)
    \/ Len(toeplitz_seed) # Len(k) + new_length - 1

\* variant: the entry depends on i + j, a Hankel matrix
toeplitz_entry_Hankel(toeplitz_seed, new_length, i, j) ==
    toeplitz_seed[i + j + 1]

\* scipy.linalg.toeplitz(col, row)[i][j] with col = seed[:new_length] and
\* row = seed[new_length-1 : new_length-1+len(key)], i and j from 0
toeplitz_entry(toeplitz_seed, new_length, i, j) ==
    IF i >= j THEN toeplitz_seed[i - j + 1]
    ELSE toeplitz_seed[new_length - 1 + j - i + 1]

\* amplify: (T @ key) % 2
amplify(k, toeplitz_seed, new_length) ==
    [r \in 1..new_length |->
        Cardinality({j \in 0..(Len(k) - 1) :
            /\ k[j + 1] = 1
            /\ toeplitz_entry(toeplitz_seed, new_length, r - 1, j) = 1}) % 2]

----------------------------------------------------------------------------
(* core/protocol.py: AliceProgram.run and BobProgram.run                   *)

\* the k smallest and the k largest elements of a set of integers
LowestK(S, k) == {i \in S : Cardinality({j \in S : j < i}) < k}

HighestK(S, k) == {i \in S : Cardinality({j \in S : j > i}) < k}

\* the elements of a set of integers in increasing order
SortedSeq(S) ==
    [r \in 1..Cardinality(S) |->
        CHOOSE i \in S : Cardinality({j \in S : j < i}) = r - 1]

\* variant: the outcome leaves run() as an exception
Return_Raised(p, code) ==
    /\ run_result' = [run_result EXCEPT ![p] = code]
    /\ pc' = [pc EXCEPT ![p] = "raised"]

\* _error_result / the success dictionary: the run is over
Return(p, code) ==
    /\ run_result' = [run_result EXCEPT ![p] = code]
    /\ pc' = [pc EXCEPT ![p] = "returned"]

sessVars == <<rng_seed, num_passes, tag_bits, num_test_bits, basis, outcome,
              authVars, callVars>>

\* BobProgram.run: ALL_MEASURED once the pairs are measured
BobAllMeasured(p) ==
    /\ pc[p] = "qkd_start"
    /\ ~is_initiator(p)
    /\ Send(p, Msg(MSG_ALL_MEASURED, <<>>))
    /\ pc' = [pc EXCEPT ![p] = "bases_recv"]
    /\ UNCHANGED <<key, key0, initial_block_size, sessVars, cascadeVars,
                   verifyVars, same_basis, test_indices, sample_qber,
                   final_length, final_key, run_result>>

\* AliceProgram.run: wait for Bob's confirmation
AliceRecvMeasured(p) ==
    /\ pc[p] = "qkd_start"
    /\ is_initiator(p)
    /\ CanRecv(p)
    /\ Recv(p)
    /\ IF Received(p).header # MSG_ALL_MEASURED
       THEN Return(p, "protocol_error")
       ELSE /\ pc' = [pc EXCEPT ![p] = "bases_send"]
            /\ UNCHANGED run_result
    /\ UNCHANGED <<key, key0, initial_block_size, sessVars, cascadeVars,
                   verifyVars, same_basis, test_indices, sample_qber,
                   final_length, final_key>>

\* _filter_bases, initiator: send the own bases
FilterBasesSend(p) ==
    /\ pc[p] = "bases_send"
    /\ Send(p, Msg(BASES_HEADER, basis[p]))
    /\ pc' = [pc EXCEPT ![p] = "bases_recv"]
    /\ UNCHANGED <<key, key0, initial_block_size, sessVars, cascadeVars,
                   verifyVars, same_basis, test_indices, sample_qber,
                   final_length, final_key, run_result>>

\* _filter_bases: pairs_info[i].same_basis = (basis == remote_basis)
SameBasis(own, remote_bases) ==
    {i \in 0..(Min(Len(own), Len(remote_bases)) - 1) : own[i + 1] = remote_bases[i + 1]}

\* _filter_bases from the recv on: the responder answers with its bases
FilterBasesRecv(p) ==
    /\ pc[p] = "bases_recv"
    /\ CanRecv(p)
    /\ same_basis' = [same_basis EXCEPT ![p] = SameBasis(basis[p], Received(p).payload)]
    /\ IF is_initiator(p)
       THEN /\ Recv(p)
            /\ pc' = [pc EXCEPT ![p] = "test_send"]
       ELSE /\ chan' = [chan EXCEPT ![p] = Tail(@),
                                    ![Peer(p)] = Append(@, send_structured(sock_key[p],
                                                        Msg(BASES_HEADER, basis[p])))]
            /\ pc' = [pc EXCEPT ![p] = "test_recv"]
    /\ UNCHANGED <<key, key0, initial_block_size, sessVars, cascadeVars,
                   verifyVars, test_indices, sample_qber, final_length,
                   final_key, run_result>>

\* _estimate_error_rate: random.sample(same_basis_indices, min(num_test_bits,
\* len(same_basis_indices))); of the possible samples the model draws the
\* lowest and the highest indices
TestSamples(S, k) ==
    {LowestK(S, Min(k, Cardinality(S))), HighestK(S, Min(k, Cardinality(S)))}

\* _estimate_error_rate: test_outcomes, by pair index
TestOutcomes(p, indices) == [i \in indices |-> outcome[p][i + 1]]

\* _estimate_error_rate: num_errors / max(1, len(test_outcomes))
ErrorRate(own, target) ==
    [num |-> Cardinality({i \in DOMAIN own : own[i] # target[i]}),
     den |-> Max(1, Cardinality(DOMAIN own))]

\* _estimate_error_rate, initiator: choose and send the test indices
TestIndicesSend(p) ==
    /\ pc[p] = "test_send"
    /\ \E sample \in TestSamples(same_basis[p], num_test_bits) :
           /\ test_indices' = [test_indices EXCEPT ![p] = sample]
           /\ Send(p, Msg(TEST_INDICES_HEADER, sample))
    /\ pc' = [pc EXCEPT ![p] = "test_recv"]
    /\ UNCHANGED <<key, key0, initial_block_size, sessVars, cascadeVars,
                   verifyVars, same_basis, sample_qber, final_length,
                   final_key, run_result>>

\* _estimate_error_rate, responder: receive the indices, send the outcomes
TestIndicesRecv(p) ==
    /\ pc[p] = "test_recv"
    /\ ~is_initiator(p)
    /\ CanRecv(p)
    /\ LET indices == Received(p).payload
       IN  /\ test_indices' = [test_indices EXCEPT ![p] = indices]
           /\ chan' = [chan EXCEPT ![p] = Tail(@),
                                   ![Peer(p)] = Append(@, send_structured(sock_key[p],
                                                    Msg(TEST_OUTCOMES_HEADER,
                                                        TestOutcomes(p, indices))))]
    /\ pc' = [pc EXCEPT ![p] = "outcomes_recv"]
    /\ UNCHANGED <<key, key0, initial_block_size, sessVars, cascadeVars,
                   verifyVars, same_basis, sample_qber, final_length,
                   final_key, run_result>>

\* _estimate_error_rate, initiator: receive the peer's outcomes, send the
\* own ones, count the errors
TestOutcomesExchange(p) ==
    /\ pc[p] = "test_recv"
    /\ is_initiator(p)
    /\ CanRecv(p)
    /\ LET own == TestOutcomes(p, test_indices[p])
       IN  /\ chan' = [chan EXCEPT ![p] = Tail(@),
                                   ![Peer(p)] = Append(@, send_structured(sock_key[p],
                                                    Msg(TEST_OUTCOMES_HEADER, own)))]
           /\ sample_qber' = [sample_qber EXCEPT ![p] =
                                  ErrorRate(own, Received(p).payload)]
    /\ pc' = [pc EXCEPT ![p] = "qber_check"]
    /\ UNCHANGED <<key, key0, initial_block_size, sessVars, cascadeVars,
                   verifyVars, same_basis, test_indices, final_length,
                   final_key, run_result>>

\* _estimate_error_rate, responder: receive the peer's outcomes, count
TestOutcomesRecv(p) ==
    /\ pc[p] = "outcomes_recv"
    /\ CanRecv(p)
    /\ Recv(p)
    /\ sample_qber' = [sample_qber EXCEPT ![p] =
                           ErrorRate(TestOutcomes(p, test_indices[p]),
                                     Received(p).payload)]
    /\ pc' = [pc EXCEPT ![p] = "qber_check"]
    /\ UNCHANGED <<key, key0, initial_block_size, sessVars, cascadeVars,
                   verifyVars, same_basis, test_indices, final_length,
                   final_key, run_result>>

\* run: sample_qber > QBER_THRESHOLD
QberTooHigh(qber) ==
    qber.num * QBER_THRESHOLD.den > QBER_THRESHOLD.num * qber.den

\* _extract_raw_key: outcomes of the pairs with same_basis and not test_outcome
extract_raw_key(p) ==
    LET kept == SortedSeq(same_basis[p] \ test_indices[p])
    IN  [r \in 1..Len(kept) |-> outcome[p][kept[r] + 1]]

\* run: the QBER check, the raw key, the reconciliator's constructor
ExtractRawKey(p) ==
    /\ pc[p] = "qber_check"
    /\ LET raw_key == extract_raw_key(p)
       IN  IF QberTooHigh(sample_qber[p])
           THEN /\ Return(p, "qber_too_high")
                /\ UNCHANGED <<key, key0, initial_block_size, block_size>>
           ELSE IF Len(raw_key) < MIN_KEY_LENGTH
           THEN /\ Return(p, "key_too_short")
                /\ UNCHANGED <<key, key0, initial_block_size, block_size>>
           ELSE /\ key' = [key EXCEPT ![p] = raw_key]
                /\ key0' = [key0 EXCEPT ![p] = raw_key]
                /\ initial_block_size' =
                       InitialBlockSizeOf(0, sample_qber[p], Len(raw_key))
                /\ block_size' = [block_size EXCEPT ![p] = initial_block_size']
                /\ pc' = [pc EXCEPT ![p] = "rc_loop"]
                /\ UNCHANGED run_result
    /\ UNCHANGED <<chan, sessVars, pass_idx, parityVars, blockVars, searchVars,
                   countVars, leakage_ec, parity_bits_sent, searchHist,
                   verifyVars, same_basis, test_indices, sample_qber,
                   final_length, final_key>>

\* run: int(sample_qber * self._num_test_bits)
SampleErrors(p) == (sample_qber[p].num * num_test_bits) \div sample_qber[p].den

\* run: total_qber
TotalQber(p) ==
    estimate_qber_from_cascade(Len(key[p]), SampleErrors(p), errors_corrected[p])

\* variant: the length is computed as for a key without errors
FinalLength_QberIgnored(p) ==
    compute_final_key_length(Len(key[p]), [num |-> 0, den |-> Len(key[p])],
                             leakage_ec[p], leakage_ver[p])

\* variant: only the initiator computes the length, the responder takes 0
FinalLength_InitiatorOnly(p) ==
    IF is_initiator(p)
    THEN compute_final_key_length(Len(key[p]), TotalQber(p), leakage_ec[p],
                                  leakage_ver[p])
    ELSE 0

\* run: final_length
FinalLength(p) ==
    compute_final_key_length(Len(key[p]), TotalQber(p), leakage_ec[p], leakage_ver[p])

\* variant: the verdict of verify() is not looked at
VerificationFailed_Never(p) == FALSE

\* run: "if not is_verified"
VerificationFailed(p) == ~is_verified[p][1]

\* run after verify(): the verdict, the final length, and for Alice the seed
\* and the amplification
AfterVerify(p) ==
    /\ pc[p] = "vf_done"
    /\ IF VerificationFailed(p)
       THEN /\ Return(p, "verification_failed")
            /\ UNCHANGED <<chan, final_length, final_key>>
       ELSE IF final_key_length_raises(TotalQber(p))
       THEN /\ pc' = [pc EXCEPT ![p] = "raised"]
            /\ UNCHANGED <<chan, final_length, final_key, run_result>>
       ELSE /\ final_length' = [final_length EXCEPT ![p] = FinalLength(p)]
            /\ IF FinalLength(p) <= 0
               THEN /\ Return(p, "insufficient_secrecy")
                    /\ UNCHANGED <<chan, final_key>>
               ELSE IF is_initiator(p)
               THEN \E toeplitz_seed \in
                           generate_toeplitz_seed(Len(key[p]), FinalLength(p)) :
                        /\ Send(p, Msg(MSG_PA_SEED, toeplitz_seed))
                        /\ final_key' = [final_key EXCEPT ![p] =
                               amplify(key[p], toeplitz_seed, FinalLength(p))]
                        /\ Return(p, "success")
               ELSE /\ pc' = [pc EXCEPT ![p] = "pa_recv"]
                    /\ UNCHANGED <<chan, final_key, run_result>>
    /\ UNCHANGED <<key, key0, initial_block_size, sessVars, cascadeVars,
                   verifyVars, same_basis, test_indices, sample_qber>>

\* BobProgram.run: receive the Toeplitz seed and amplify
PaSeedRecv(p) ==
    /\ pc[p] = "pa_recv"
    /\ CanRecv(p)
    /\ Recv(p)
    /\ LET response == Received(p)
       IN  IF response.header # MSG_PA_SEED
           THEN /\ Return(p, "protocol_error")
                /\ UNCHANGED final_key
           ELSE IF amplify_raises(key[p], response.payload, final_length[p])
           THEN /\ pc' = [pc EXCEPT ![p] = "raised"]
                /\ UNCHANGED <<final_key, run_result>>
           ELSE /\ final_key' = [final_key EXCEPT ![p] =
                       amplify(key[p], response.payload, final_length[p])]
                /\ Return(p, "success")
    /\ UNCHANGED <<key, key0, initial_block_size, sessVars, cascadeVars,
                   verifyVars, same_basis, test_indices, sample_qber,
                   final_length>>

----------------------------------------------------------------------------
(* Sessions: both programs constructed with the same arguments, the pairs  *)
(* distributed and measured                                                *)

\* measured pairs: their number, the test bits and the tag size the programs
\* were constructed with, the indices at which Bob's basis differs from
\* Alice's, and those at which the outcomes do
SessionConfigs ==
    {[pairs |-> 164, test |-> 4, tag |-> 64, other_basis |-> {}, flipped |-> {}],
     [pairs |-> 164, test |-> 4, tag |-> 64, other_basis |-> {}, flipped |-> {67, 68}],
     [pairs |-> 228, test |-> 4, tag |-> 128, other_basis |-> {}, flipped |-> {131, 132}],
     [pairs |-> 40, test |-> 4, tag |-> 128, other_basis |-> {0, 1, 38, 39}, flipped |-> {14}],
     [pairs |-> 36, test |-> 4, tag |-> 64, other_basis |-> {}, flipped |-> {9, 30}],
     [pairs |-> 36, test |-> 4, tag |-> 64, other_basis |-> {}, flipped |-> {4, 5}],
     [pairs |-> 200, test |-> 168, tag |-> 64, other_basis |-> {}, flipped |-> 0..17],
     [pairs |-> 8, test |-> 4, tag |-> 128, other_basis |-> {}, flipped |-> {0}],
     [pairs |-> 228, test |-> 4, tag |-> 64, other_basis |-> {}, flipped |-> {100}],
     [pairs |-> 452, test |-> 228, tag |-> 64, other_basis |-> {}, flipped |-> 0..24]}

Init ==
    \E cfg \in SessionConfigs :
        /\ num_test_bits = cfg.test
        /\ basis = [p \in Party |->
                       [i \in 1..cfg.pairs |->
                           IF p = "Bob" /\ (i - 1) \in cfg.other_basis
                           THEN 1 - (i % 2) ELSE i % 2]]
        /\ outcome = [p \in Party |->
                         [i \in 1..cfg.pairs |->
                             IF p = "Alice" /\ (i - 1) \in cfg.flipped
                             THEN 1 - ((i \div 2) % 2) ELSE (i \div 2) % 2]]
        /\ rng_seed = DEFAULT_CASCADE_SEED
        /\ num_passes = DEFAULT_NUM_PASSES
        /\ NoCall
        /\ tag_bits = cfg.tag
        /\ initial_block_size = 0
        /\ key = [p \in Party |-> <<>>]
        /\ key0 = key
        /\ pc = [p \in Party |-> "qkd_start"]
        /\ chan = [p \in Party |-> <<>>]
        /\ pass_idx = [p \in Party |-> 0]
        /\ block_size = [p \in Party |-> 0]
        /\ local_parities = [p \in Party |-> <<>>]
        /\ remote_parities = [p \in Party |-> <<>>]
        /\ mismatched = [p \in Party |-> <<>>]
        /\ mpos = [p \in Party |-> 1]
        /\ left = [p \in Party |-> 0]
        /\ right = [p \in Party |-> 0]
        /\ local_parity = [p \in Party |-> 0]
        /\ remote_parity = [p \in Party |-> 0]
        /\ leakage_bits = [p \in Party |-> 0]
        /\ errors_corrected = [p \in Party |-> 0]
        /\ leakage_ec = [p \in Party |-> -1]
        /\ salt = [p \in Party |-> {}]
        /\ remote_tag = [p \in Party |-> {}]
        /\ leakage_ver = [p \in Party |-> 0]
        /\ is_verified = [p \in Party |-> <<>>]
        /\ parity_bits_sent = [p \in Party |-> 0]
        /\ pass_diff = [p \in Party |-> {}]
        /\ searched = [p \in Party |-> {}]
        /\ search_diff = [p \in Party |-> {}]
        /\ search_rounds = [p \in Party |-> 0]
        /\ last_search = [p \in Party |-> NoSearch]
        /\ same_basis = [p \in Party |-> {}]
        /\ test_indices = [p \in Party |-> {}]
        /\ sample_qber = [p \in Party |-> NoQber]
        /\ final_length = [p \in Party |-> -1]
        /\ final_key = [p \in Party |-> <<>>]
        /\ run_result = [p \in Party |-> "none"]
        /\ SocketsIdle

ProgramStep(p) ==
    \/ BobAllMeasured(p)
    \/ AliceRecvMeasured(p)
    \/ FilterBasesSend(p)
    \/ FilterBasesRecv(p)
    \/ TestIndicesSend(p)
    \/ TestIndicesRecv(p)
    \/ TestOutcomesExchange(p)
    \/ TestOutcomesRecv(p)
    \/ ExtractRawKey(p)
    \/ AfterVerify(p)
    \/ PaSeedRecv(p)

Next == \E p \in Party : ProgramStep(p) \/ CascadeStep(p) \/ VerifyStep(p)

Spec == Init /\ [][Next]_vars

----------------------------------------------------------------------------
(* Properties of reconciliation and verification                           *)

RecvPcs == {"par_recv", "bs_recv", "done_recv", "sync_recv", "vf_recv"}

\* the party is suspended in recv_structured
AtRecv(p) == pc[p] \in RecvPcs

InFlight == Len(chan["Alice"]) + Len(chan["Bob"])

\* C2: in every round of reconciliation and verification the responder sends
\* only while the initiator, having sent first, awaits the reply of the same
\* round, and the two parties never both wait on an empty channel
C2_SendFirstNoMutualWait ==
    /\ ~(AtRecv("Alice") /\ AtRecv("Bob") /\ InFlight = 0)
    /\ pc["Bob"] = "par_send" => pc["Alice"] = "par_recv" /\ chan["Alice"] = <<>>
    /\ pc["Bob"] = "bs_send" => pc["Alice"] = "bs_recv" /\ chan["Alice"] = <<>>
    /\ pc["Bob"] = "done_send" => pc["Alice"] = "done_recv" /\ chan["Alice"] = <<>>
    /\ pc["Bob"] = "sync_send" => pc["Alice"] = "sync_recv" /\ chan["Alice"] = <<>>
    /\ pc["Bob"] = "vf_send" => pc["Alice"] = "vf_recv" /\ chan["Alice"] = <<>>
    /\ \A q \in Party : AtRecv(q) /\ AtRecv(Peer(q)) => InFlight = 1

C2_Witness ==
    /\ pc["Bob"] = "done_send"
    /\ pc["Alice"] = "done_recv"
    /\ chan["Bob"] = <<>>
    /\ key["Alice"] # key0["Alice"]

\* reconcile has returned at party p after the configured number of passes,
\* with the accumulated leakage as its value
ReconcileReturned(p) ==
    /\ leakage_ec[p] >= 0
    /\ pass_idx[p] = num_passes
    /\ leakage_ec[p] = leakage_bits[p]

\* C4: with the same seed, passes, block size and key length on both sides,
\* reconcile eventually returns at both parties, after exactly num_passes
\* passes, and its value is the accumulated leakage
C4_ReconcileTerminates == <>(ReconcileReturned("Alice") /\ ReconcileReturned("Bob"))

C4_Witness ==
    /\ ReconcileReturned("Alice")
    /\ ReconcileReturned("Bob")
    /\ num_passes = 2
    /\ errors_corrected["Alice"] > 0

\* C5: the value reconcile returns is the number of parity bits the party put
\* on the channel: one per block per pass and one per binary-search round
C5_LeakageIsParitiesExchanged ==
    \A p \in Party : leakage_ec[p] >= 0 => leakage_ec[p] = parity_bits_sent[p]

C5_Witness ==
    /\ leakage_ec["Alice"] >= 5
    /\ leakage_ec["Bob"] >= 5
    /\ errors_corrected["Bob"] > 0

\* C6: a search of the initiator on a block in which the keys differed in
\* exactly one position flipped that position, and the keys agree on the
\* whole block afterwards
C6_SingleErrorCorrected ==
    LET ls == last_search["Alice"]
    IN  ls.party = "Alice" /\ Cardinality(ls.diff0) = 1
        => ls.diff0 = {ls.error_idx} /\ ls.diff1 = {}

C6_Witness ==
    /\ last_search["Alice"].party = "Alice"
    /\ Cardinality(last_search["Alice"].diff0) = 1
    /\ Len(last_search["Alice"].block) >= 4
    /\ last_search["Alice"].diff1 = {}

\* C7 as claimed: a search on a block of m positions with one differing bit
\* takes exactly ceil(log2 m) parity rounds
C7_ExactlyCeilLog2Rounds ==
    \A p \in Party :
        last_search[p].party = p /\ Cardinality(last_search[p].diff0) = 1
        => last_search[p].rounds = CeilLog2(Len(last_search[p].block))

\* C7 amended: the number of rounds lies between floor(log2 m) and
\* ceil(log2 m), hence is log2 m when m is a power of two
C7_RoundsBetweenFloorAndCeil ==
    \A p \in Party :
        last_search[p].party = p /\ Cardinality(last_search[p].diff0) = 1
        => /\ last_search[p].rounds >= FloorLog2(Len(last_search[p].block))
           /\ last_search[p].rounds <= CeilLog2(Len(last_search[p].block))

C7_Witness ==
    \E p \in Party :
        /\ last_search[p].party = p
        /\ Cardinality(last_search[p].diff0) = 1
        /\ Len(last_search[p].block) = 5
        /\ last_search[p].rounds = 2

\* C8: the responder's key stays the key it started with
C8_ResponderKeyUnchanged == key["Bob"] = key0["Bob"]

C8_Witness ==
    /\ last_search["Bob"].party = "Bob"
    /\ key["Alice"] # key0["Alice"]
    /\ leakage_ec["Bob"] >= 0

AfterExchangePcs == {"blk_loop", "bs_loop", "bs_send", "bs_recv", "done_send",
                     "done_recv", "sync_send", "sync_recv"}

\* positions at which the keys differed inside block k (from 0) of p's pass
BlockDiff(p, k) == pass_diff[p] \cap RangeOf(original_blocks(p)[k + 1])

\* blocks of p's current pass with an odd number of differing positions
OddBlocks(p) ==
    {k \in 0..(Len(original_blocks(p)) - 1) : Cardinality(BlockDiff(p, k)) % 2 = 1}

\* C9: in a pass the blocks searched are exactly those in which the keys
\* differ in an odd number of positions, and no bit of another block is flipped
C9_SearchIffOddErrors ==
    \A p \in Party :
        pc[p] \in AfterExchangePcs
        => /\ RangeOf(mismatched[p]) = OddBlocks(p)
           /\ searched[p] \subseteq OddBlocks(p)
           /\ pc[p] \in {"sync_send", "sync_recv"} => searched[p] = OddBlocks(p)
           /\ is_initiator(p) =>
                  SetXor(pass_diff[p], DiffSet) \subseteq
                      UNION {RangeOf(original_blocks(p)[k + 1]) : k \in OddBlocks(p)}

C9_Witness ==
    \E p \in Party :
        /\ pc[p] \in {"sync_send", "sync_recv"}
        /\ searched[p] # {}
        /\ \E k \in 0..(Len(original_blocks(p)) - 1) :
               Cardinality(BlockDiff(p, k)) = 2

\* C10: both parties return the same boolean, and it is true exactly when the
\* responder's hash of its own key under the received salt is the received
\* tag (which are the salt and the tag the initiator sent)
C10_SameVerdict ==
    /\ is_verified["Bob"] # <<>> =>
           /\ salt["Bob"] = salt["Alice"]
           /\ remote_tag["Bob"] =
                  compute_polynomial_hash(key["Alice"], salt["Alice"], tag_bits)
           /\ is_verified["Bob"][1] =
                  (compute_polynomial_hash(key["Bob"], salt["Bob"], tag_bits)
                      = remote_tag["Bob"])
    /\ is_verified["Alice"] # <<>> => is_verified["Alice"] = is_verified["Bob"]

C10_Witness ==
    /\ is_verified["Alice"] = <<FALSE>>
    /\ is_verified["Bob"] = <<FALSE>>

----------------------------------------------------------------------------
(* Properties of a whole session                                           *)

BothSucceeded == run_result["Alice"] = "success" /\ run_result["Bob"] = "success"

\* C1 as claimed: when both runs return a success result, the final keys are
\* identical
C1_FinalKeysIdentical == BothSucceeded => final_key["Alice"] = final_key["Bob"]

\* C1 amended: when both runs return a success result, the final keys have
\* the same length, the reconciled keys have the same tag under the salt of
\* the session, and the final keys are identical if the reconciled keys are
C1_FinalKeysIdenticalUpToCollision ==
    BothSucceeded =>
        /\ Len(final_key["Alice"]) = Len(final_key["Bob"])
        /\ Len(final_key["Alice"]) > 0
        /\ compute_polynomial_hash(key["Alice"], salt["Alice"], tag_bits)
               = compute_polynomial_hash(key["Bob"], salt["Alice"], tag_bits)
        /\ key["Alice"] = key["Bob"] => final_key["Alice"] = final_key["Bob"]

C1_Witness ==
    /\ BothSucceeded
    /\ key["Alice"] # key["Bob"]
    /\ final_key["Alice"] # final_key["Bob"]

\* C3 as claimed: at most one message is in flight at any moment of a session
C3_AtMostOneInFlight == InFlight <= 1

\* C3 amended: at most two messages are in flight, and two only when they
\* are the initiator's test outcomes followed by its first block parities;
\* from the responder's receipt of the test outcomes on at most one is
C3_AtMostOneAfterTestOutcomes ==
    /\ InFlight <= 2
    /\ InFlight = 2 =>
           /\ chan["Alice"] = <<>>
           /\ chan["Bob"][1].header = TEST_OUTCOMES_HEADER
           /\ chan["Bob"][2].header = MSG_PARITIES
           /\ pc["Bob"] = "outcomes_recv"
           /\ pass_idx["Alice"] = 0

C3_Witness ==
    /\ InFlight = 2
    /\ pc["Alice"] = "par_recv"
    /\ pc["Bob"] = "outcomes_recv"

----------------------------------------------------------------------------
(* Properties of the verification round                                    *)

\* the parties' tags of their present keys under the salt of the session
SessionTag(p) == compute_polynomial_hash(key[p], salt["Alice"], tag_bits)

\* C11 as claimed: verification returns false at both parties whenever the
\* two keys differ in at least one bit
C11_DifferentKeysFail ==
    \A p \in Party :
        (is_verified[p] # <<>> /\ key["Alice"] # key["Bob"])
            => is_verified[p] = <<FALSE>>

\* C11 amended: verification returns false at both parties whenever the two
\* keys have different tags under the salt of the session, which is the case
\* for all differing keys that fit into one field element
C11_DifferentTagsFail ==
    \A p \in Party :
        is_verified[p] # <<>> =>
            /\ SessionTag("Alice") # SessionTag("Bob")
                   => is_verified[p] = <<FALSE>>
            /\ (key["Alice"] # key["Bob"] /\ Len(key["Alice"]) <= tag_bits)
                   => is_verified[p] = <<FALSE>>

C11_Witness ==
    /\ is_verified["Alice"] = <<FALSE>>
    /\ is_verified["Bob"] = <<FALSE>>
    /\ Cardinality(DiffSet) >= 1
    /\ Len(key["Alice"]) <= tag_bits
    /\ run_result["Alice"] = "verification_failed"

\* pcs of a party inside or after the verification round
VerifyPcs == {"vf_recv", "vf_send", "vf_done"}

SaltsInFlight ==
    UNION {{chan[p][i].payload[1].value.salt : i \in
               {j \in 1..Len(chan[p]) : chan[p][j].header = MSG_VERIFY_HASH}} :
           p \in Party}

\* a field element (a set of bit positions) other than zero
NonZeroElement(v, field_bits) ==
    /\ v # {}
    /\ v \subseteq 0..(field_bits - 1)

\* C13: the salt the initiator sends is a non-zero field element,
\* 1 <= salt < 2^tag_bits: so is every salt in flight, the salt the initiator
\* keeps and the salt the responder has received
C13_SaltNonZero ==
    /\ \A v \in SaltsInFlight : NonZeroElement(v, tag_bits)
    /\ pc["Alice"] \in VerifyPcs => NonZeroElement(salt["Alice"], tag_bits)
    /\ pc["Bob"] \in {"vf_send", "vf_done"}
           => NonZeroElement(salt["Bob"], tag_bits)

C13_Witness ==
    /\ pc["Bob"] = "vf_send"
    /\ salt["Bob"] = {tag_bits - 1}
    /\ tag_bits = 64

----------------------------------------------------------------------------
(* Properties of the outcome of a session                                  *)

\* pcs of run() up to and including the check of the sample QBER
BeforeRawKeyPcs == {"qkd_start", "bases_send", "bases_recv", "test_send",
                    "test_recv", "outcomes_recv", "qber_check"}

\* run() is past the checks of the sample QBER and of the raw key length
PastRawKey(p) == pc[p] \notin BeforeRawKeyPcs

\* len(raw_key): the pairs measured in the same basis and not used as test
RawKeyLength(p) == Cardinality(same_basis[p] \ test_indices[p])

\* run() is past the check of the verdict of verify()
PastVerdict(p) == pc[p] \in {"pa_recv", "returned", "raised"}

\* run() has returned _error_result(code): success False, secret_key []
FailureResult(p, code) ==
    /\ run_result[p] = code
    /\ pc[p] = "returned"
    /\ final_key[p] = <<>>

PolicyCodes == {"qber_too_high", "key_too_short", "verification_failed",
                "insufficient_secrecy"}

SeedsInFlight ==
    UNION {{i \in 1..Len(chan[p]) : chan[p][i].header = MSG_PA_SEED} :
           p \in Party}

\* C15: once verification has returned false to a party, that party never
\* waits for a privacy-amplification seed, computes no final length and no
\* final key, and returns verification_failed or has yet to; no seed is sent
\* by either party; reconciliation and verification are not run again
C15_NoAmplificationAfterFailure ==
    \A p \in Party :
        is_verified[p] = <<FALSE>> =>
            /\ pc[p] \in {"vf_done", "returned"}
            /\ run_result[p] \in {"none", "verification_failed"}
            /\ pc[p] = "returned" => run_result[p] = "verification_failed"
            /\ final_length[p] = -1
            /\ final_key[p] = <<>>
            /\ SeedsInFlight = {}
            /\ pass_idx[p] = num_passes
            /\ leakage_ver[p] = tag_bits

C15_Witness ==
    /\ is_verified["Alice"] = <<FALSE>>
    /\ is_verified["Bob"] = <<FALSE>>
    /\ pc["Alice"] = "returned"
    /\ pc["Bob"] = "returned"
    /\ InFlight = 0

----------------------------------------------------------------------------
(* An intruder on the classical channel: it can copy the envelope at the   *)
(* head of an inbox, change it, or put a copied envelope in its place      *)

\* the number of envelopes the intruder may replace
MaxAttacks == 1

\* everything but the channel, the positions and the sockets
protocolVars == <<key, rng_seed, num_passes, initial_block_size, tag_bits,
                  key0, num_test_bits, basis, outcome, same_basis,
                  test_indices, sample_qber, final_length, final_key,
                  run_result, cascadeVars, verifyVars, callVars>>

\* everything but the call of a library function
sessionVars == <<pc, chan, key, rng_seed, num_passes, initial_block_size,
                 tag_bits, key0, num_test_bits, basis, outcome, same_basis,
                 test_indices, sample_qber, final_length, final_key,
                 run_result, cascadeVars, verifyVars, authVars>>

\* the same payload as a tuple instead of a list, and the reverse
Retyped(payload) ==
    IF payload.type = "list" THEN {PyObject("tuple", payload.value)}
    ELSE IF payload.type = "tuple" THEN {PyObject("list", payload.value)}
    ELSE {}

\* another payload: None, or 0 in the place of None
Replaced(payload) ==
    IF payload.type = "NoneType" THEN {PyObject("int", 0)}
    ELSE {PyObject("NoneType", <<>>)}

\* the envelopes an intruder can make of the envelope e: another header,
\* another payload, the payload with another type, other tag bytes, a tag
\* that is no byte string, an envelope that is no pair, a dict or a list in
\* the place of the tuple
Tamperings(e) ==
    {[e EXCEPT !.header = "BOGUS"]}
    \cup {[e EXCEPT !.payload[1] = pl] : pl \in Retyped(e.payload[1])}
    \cup {[e EXCEPT !.payload[1] = pl] : pl \in Replaced(e.payload[1])}
    \cup {[e EXCEPT !.payload[2].key = "forged"],
          [e EXCEPT !.payload[2].type = "str"],
          [e EXCEPT !.payload = <<e.payload[1]>>],
          [e EXCEPT !.ptype = "dict"],
          [e EXCEPT !.ptype = "list"]}

\* an envelope the intruder has not yet changed
Untouched(e) ==
    /\ e.ptype = "tuple"
    /\ Len(e.payload) = 2
    /\ e.header # "BOGUS"
    /\ e.payload[2].type = "bytes"
    /\ e.payload[2].key # "forged"

\* the intruder copies the envelope at the head of p's inbox
IntruderLearns(p) ==
    /\ intruder.attacks > 0
    /\ intruder.knows = {}
    /\ chan[p] # <<>>
    /\ intruder' = [intruder EXCEPT !.knows = {Head(chan[p])}]
    /\ UNCHANGED <<pc, chan, protocolVars, sock_key, sent_msg, recv_result>>

\* the intruder changes the envelope at the head of p's inbox
IntruderTampers(p) ==
    /\ intruder.attacks > 0
    /\ chan[p] # <<>>
    /\ Untouched(Head(chan[p]))
    /\ \E e \in Tamperings(Head(chan[p])) :
           chan' = [chan EXCEPT ![p] = <<e>> \o Tail(@)]
    /\ intruder' = [intruder EXCEPT !.attacks = @ - 1]
    /\ UNCHANGED <<pc, protocolVars, sock_key, sent_msg, recv_result>>

\* the receives whose caller does not read the payload before the header
ReplayPcs == {"done_recv", "sync_recv", "vf_recv"}

\* the intruder puts an envelope it has copied, one with another header, in
\* the place of the envelope at the head of p's inbox
IntruderReplays(p) ==
    /\ intruder.attacks > 0
    /\ chan[p] # <<>>
    /\ pc[p] \in ReplayPcs
    /\ \E e \in intruder.knows :
           /\ e.header # Head(chan[p]).header
           /\ chan' = [chan EXCEPT ![p] = <<e>> \o Tail(@)]
    /\ intruder' = [intruder EXCEPT !.attacks = @ - 1]
    /\ UNCHANGED <<pc, protocolVars, sock_key, sent_msg, recv_result>>

\* the outcome of recv_structured for the envelope at the head of p's inbox
RecvOutcome(p) ==
    [status |-> recv_structured(sock_key[p], Head(chan[p])).status,
     msg |-> recv_structured(sock_key[p], Head(chan[p])).msg,
     envelope |-> Head(chan[p])]

\* variant: a message that fails the checks is dropped and the party goes
\* on waiting
RecvRaises_Retry(p) ==
    /\ AtRecv(p)
    /\ chan[p] # <<>>
    /\ RecvOutcome(p).status # "ok"
    /\ Recv(p)
    /\ recv_result' = [recv_result EXCEPT ![p] = <<RecvOutcome(p)>>]
    /\ UNCHANGED <<pc, protocolVars, sock_key, intruder, sent_msg>>

\* recv_structured raises SecurityError or IntegrityError: neither
\* reconcile, verify nor run catches it, the party's generator ends
RecvRaises(p) ==
    /\ AtRecv(p)
    /\ chan[p] # <<>>
    /\ RecvOutcome(p).status # "ok"
    /\ Recv(p)
    /\ recv_result' = [recv_result EXCEPT ![p] = <<RecvOutcome(p)>>]
    /\ pc' = [pc EXCEPT ![p] = "raised"]
    /\ UNCHANGED <<protocolVars, sock_key, intruder, sent_msg>>

\* sockets constructed with the same key or with different keys
SocketKeys == {[p \in Party |-> "k1"],
               [p \in Party |-> IF is_initiator(p) THEN "k1" ELSE "k2"]}

\* reconciliation and verification of two keys that differ in at most one
\* bit, one pass, with an intruder on the channel
InitAttack ==
    \E e \in {x \in ErrorSets(MaxKeyLen) : Cardinality(x) <= 1} :
        /\ ReconcileStart(MaxKeyLen, [i \in 1..MaxKeyLen |-> 0], e, 0)
        /\ rng_seed = 0
        /\ num_passes = 1
        /\ tag_bits = 64
        /\ sock_key \in SocketKeys
        /\ intruder = [knows |-> {}, attacks |-> MaxAttacks]
        /\ sent_msg = [p \in Party |-> <<>>]
        /\ recv_result = [p \in Party |-> <<>>]

IntruderStep(p) ==
    \/ IntruderLearns(p)
    \/ IntruderTampers(p)
    \/ IntruderReplays(p)

NextAttack ==
    \E p \in Party :
        CascadeStep(p) \/ VerifyStep(p) \/ RecvRaises(p) \/ IntruderStep(p)

SpecAttack == InitAttack /\ [][NextAttack]_vars

----------------------------------------------------------------------------
(* Properties of a session with an intruder                                *)

\* the party takes the envelope at the head of its inbox
Consumes(p) == chan[p] # <<>> /\ chan'[p] = Tail(chan[p])

\* C16: a party that receives an envelope failing the tag check or the
\* checks of the envelope's shape ends with the exception in that very
\* step, without a change of its key and without sending; from then on it
\* stays ended, changes no key bit, corrects no error and sends nothing
C16_AbortOnAuthFailure ==
    [][\A p \in Party :
          /\ (Consumes(p) /\ RecvOutcome(p).status # "ok")
                 => /\ pc'[p] = "raised"
                    /\ key'[p] = key[p]
                    /\ chan'[Peer(p)] = chan[Peer(p)]
          /\ pc[p] = "raised"
                 => /\ pc'[p] = "raised"
                    /\ key'[p] = key[p]
                    /\ errors_corrected'[p] = errors_corrected[p]
                    /\ Len(chan'[Peer(p)]) <= Len(chan[Peer(p)])]_vars

C16_Witness ==
    /\ pc["Alice"] = "raised"
    /\ recv_result["Alice"] # <<>>
    /\ recv_result["Alice"][1].status = "IntegrityError"
    /\ sock_key["Alice"] = sock_key["Bob"]
    /\ key["Alice"] # key0["Alice"]
    /\ AtRecv("Bob")
    /\ InFlight = 0

\* the header the party's code is waiting for
ExpectedHeader(p) ==
    IF pc[p] = "par_recv" THEN MSG_PARITIES
    ELSE IF pc[p] = "bs_recv"
    THEN (IF is_initiator(p) THEN MSG_SEARCH_RESPONSE ELSE MSG_SEARCH_REQUEST)
    ELSE IF pc[p] = "done_recv" THEN MSG_SEARCH_COMPLETE
    ELSE IF pc[p] = "sync_recv" THEN MSG_PASS_SYNC
    ELSE IF pc[p] = "vf_recv"
    THEN (IF is_initiator(p) THEN MSG_VERIFY_RESULT ELSE MSG_VERIFY_HASH)
    ELSE "none"

\* C17 as claimed: a party that takes a message whose header is not the one
\* it is waiting for ends its session, it does not go on as if the message
\* were the expected one
C17_UnexpectedHeaderEndsSession ==
    [][\A p \in Party :
          (AtRecv(p) /\ Consumes(p)
              /\ Head(chan[p]).header # ExpectedHeader(p))
             => pc'[p] \in {"raised", "returned"}]_vars

----------------------------------------------------------------------------
(* AuthenticatedSocket alone: one send_structured, the channel with the    *)
(* intruder, one recv_structured                                           *)

\* headers and payloads of the messages sent: lists, a tuple, ints, a dict,
\* None
AuthHeaders == {MSG_PARITIES, MSG_PASS_SYNC}

AuthPayloads ==
    {PyObject("list", <<0, 1>>), PyObject("list", <<1, 1>>),
     PyObject("tuple", <<0, 1>>), PyObject("int", 0), PyObject("int", 1),
     PyObject("dict", [parity |-> 1]), PyObject("NoneType", <<>>)}

AuthMessages ==
    {[header |-> h, payload |-> pl] : h \in AuthHeaders, pl \in AuthPayloads}

\* no program runs: the variables of the programs keep these values
ProgramsIdle ==
    /\ key = [p \in Party |-> <<>>]
    /\ key0 = key
    /\ rng_seed = 0
    /\ num_passes = 0
    /\ initial_block_size = 0
    /\ tag_bits = 64
    /\ pass_idx = [p \in Party |-> 0]
    /\ block_size = [p \in Party |-> 0]
    /\ local_parities = [p \in Party |-> <<>>]
    /\ remote_parities = [p \in Party |-> <<>>]
    /\ mismatched = [p \in Party |-> <<>>]
    /\ mpos = [p \in Party |-> 1]
    /\ left = [p \in Party |-> 0]
    /\ right = [p \in Party |-> 0]
    /\ local_parity = [p \in Party |-> 0]
    /\ remote_parity = [p \in Party |-> 0]
    /\ leakage_bits = [p \in Party |-> 0]
    /\ errors_corrected = [p \in Party |-> 0]
    /\ leakage_ec = [p \in Party |-> -1]
    /\ salt = [p \in Party |-> {}]
    /\ remote_tag = [p \in Party |-> {}]
    /\ leakage_ver = [p \in Party |-> 0]
    /\ is_verified = [p \in Party |-> <<>>]
    /\ parity_bits_sent = [p \in Party |-> 0]
    /\ pass_diff = [p \in Party |-> {}]
    /\ searched = [p \in Party |-> {}]
    /\ search_diff = [p \in Party |-> {}]
    /\ search_rounds = [p \in Party |-> 0]
    /\ last_search = [p \in Party |-> NoSearch]
    /\ num_test_bits = 0
    /\ basis = [p \in Party |-> <<>>]
    /\ outcome = [p \in Party |-> <<>>]
    /\ same_basis = [p \in Party |-> {}]
    /\ test_indices = [p \in Party |-> {}]
    /\ sample_qber = [p \in Party |-> NoQber]
    /\ final_length = [p \in Party |-> -1]
    /\ final_key = [p \in Party |-> <<>>]
    /\ run_result = [p \in Party |-> "none"]

\* one party is about to send, its peer to receive; the sockets have the
\* same key or different keys
InitAuth ==
    \E sender \in Party :
        /\ ProgramsIdle
        /\ pc = [p \in Party |-> IF p = sender THEN "auth_send" ELSE "auth_recv"]
        /\ chan = [p \in Party |-> <<>>]
        /\ sock_key \in SocketKeys
        /\ intruder \in {[knows |-> {}, attacks |-> a] : a \in 0..MaxAttacks}
        /\ sent_msg = [p \in Party |-> <<>>]
        /\ recv_result = [p \in Party |-> <<>>]
        /\ NoCall

\* auth_socket.send_structured(msg)
AuthSend(p) ==
    /\ pc[p] = "auth_send"
    /\ \E m \in AuthMessages :
           /\ Send(p, m)
           /\ sent_msg' = [sent_msg EXCEPT ![p] = <<m>>]
    /\ pc' = [pc EXCEPT ![p] = "auth_done"]
    /\ UNCHANGED <<protocolVars, sock_key, intruder, recv_result>>

\* msg = yield from auth_socket.recv_structured(), or the exception
AuthRecv(p) ==
    /\ pc[p] = "auth_recv"
    /\ chan[p] # <<>>
    /\ Recv(p)
    /\ recv_result' = [recv_result EXCEPT ![p] = <<RecvOutcome(p)>>]
    /\ pc' = [pc EXCEPT ![p] = "auth_done"]
    /\ UNCHANGED <<protocolVars, sock_key, intruder, sent_msg>>

NextAuth == \E p \in Party : AuthSend(p) \/ AuthRecv(p) \/ IntruderTampers(p)

SpecAuth == InitAuth /\ [][NextAuth]_vars

----------------------------------------------------------------------------
(* Properties of AuthenticatedSocket                                       *)

\* the two Python objects have the same type and the same value
PySame(a, b) == a.type = b.type /\ a.value = b.value

\* the envelope is a pair whose second element is a byte string
WellFormed(e) ==
    /\ e.ptype \in {"tuple", "list"}
    /\ Len(e.payload) = 2
    /\ e.payload[2].type = "bytes"

\* the tag the receiver p computes for the envelope e
ExpectedTag(p, e) ==
    compute_hmac(sock_key[p], data_to_sign(e.header, e.payload[1]))

\* the envelope the peer of p put on the channel
SentEnvelope(p) == send_structured(sock_key[Peer(p)], sent_msg[Peer(p)][1])

\* the tag the peer of p attached to the message it sent
SentTag(p) == SentEnvelope(p).payload[2]

\* the well-formed envelope e that p received differs from what its peer
\* sent in the header, in the payload or in the tag
Changed(p, e) ==
    \/ e.header # sent_msg[Peer(p)][1].header
    \/ ~PySame(e.payload[1], sent_msg[Peer(p)][1].payload)
    \/ ~compare_digest(e.payload[2], SentTag(p))

\* C18 as claimed: recv_structured returns a message only if the received
\* tag is the tag of the received header and payload under the receiver's
\* key, and for a well-formed envelope any change of the header, of the
\* payload or of the tag, and any difference of the keys, gives
\* IntegrityError
C18_AnyChangeRaisesIntegrityError ==
    \A p \in Party :
        recv_result[p] # <<>> =>
            LET r == recv_result[p][1]
            IN  /\ r.status = "ok" =>
                       /\ WellFormed(r.envelope)
                       /\ compare_digest(r.envelope.payload[2],
                                         ExpectedTag(p, r.envelope))
                /\ (WellFormed(r.envelope)
                        /\ (Changed(p, r.envelope)
                               \/ sock_key[p] # sock_key[Peer(p)]))
                       => (r.status = "IntegrityError" /\ r.msg = <<>>)

\* C19: an envelope that is not a pair, or whose tag is not a byte string,
\* makes recv_structured raise SecurityError and return nothing, and
\* SecurityError is raised for no other envelope
C19_MalformedRaisesSecurityError ==
    \A p \in Party :
        recv_result[p] # <<>> =>
            LET r == recv_result[p][1]
            IN  /\ ~WellFormed(r.envelope)
                       => (r.status = "SecurityError" /\ r.msg = <<>>)
                /\ r.status = "SecurityError" => ~WellFormed(r.envelope)

C19_Witness ==
    /\ recv_result["Bob"] # <<>>
    /\ recv_result["Bob"][1].status = "SecurityError"
    /\ Len(recv_result["Bob"][1].envelope.payload) = 2
    /\ recv_result["Bob"][1].envelope.payload[2].type = "str"
    /\ sock_key["Alice"] # sock_key["Bob"]

\* the envelope e that p received is the envelope its peer sent
Unmodified(p, e) ==
    /\ e.ptype = "tuple"
    /\ Len(e.payload) = 2
    /\ e.payload[2].type = "bytes"
    /\ ~Changed(p, e)

\* C20: a message sent with send_structured and delivered unmodified is
\* returned by the peer's recv_structured, under the same key, with the
\* header and the payload (its type and its value) that were sent
C20_RoundTrip ==
    \A p \in Party :
        (recv_result[p] # <<>>
            /\ sock_key[p] = sock_key[Peer(p)]
            /\ Unmodified(p, recv_result[p][1].envelope))
           => /\ recv_result[p][1].status = "ok"
              /\ recv_result[p][1].msg[1].header = sent_msg[Peer(p)][1].header
              /\ PySame(recv_result[p][1].msg[1].payload,
                        sent_msg[Peer(p)][1].payload)

C20_Witness ==
    /\ recv_result["Alice"] # <<>>
    /\ recv_result["Alice"][1].status = "ok"
    /\ sent_msg["Bob"] = <<[header |-> MSG_PASS_SYNC,
                            payload |-> PyObject("dict", [parity |-> 1])]>>
    /\ recv_result["Alice"][1].msg = sent_msg["Bob"]
    /\ Unmodified("Alice", recv_result["Alice"][1].envelope)
    /\ intruder.attacks = MaxAttacks

----------------------------------------------------------------------------
(* Library functions called on their own                                   *)

\* the outcome of a call: the value returned, or the exception raised
Returned(v) == [status |-> "returned", value |-> <<v>>]

Raised(e) == [status |-> e, value |-> <<>>]

\* no session runs and no message is in flight
NoSession ==
    /\ ProgramsIdle
    /\ pc = [p \in Party |-> "call"]
    /\ chan = [p \in Party |-> <<>>]
    /\ SocketsIdle

----------------------------------------------------------------------------
(* privacy/entropy.py: compute_final_key_length called on its own          *)

\* reconciled lengths, and the leakages of reconciliation and verification
ReconciledLengths == DOMAIN DevetakWinterFloor

LeakagesEc == {0, 7, 30, 100}

LeakagesVer == {0, 64, 128}

\* the arguments: the QBER is errors / reconciled_length, from 0 to 1
InitLength ==
    /\ NoSession
    /\ \E n \in ReconciledLengths :
         \E e \in 0..n :
           call_args \in [reconciled_length : {n},
                              qber : {[num |-> e, den |-> n]},
                              leakage_ec : LeakagesEc,
                              leakage_ver : LeakagesVer]
    /\ call_result = <<>>

\* compute_final_key_length(reconciled_length, qber, leakage_ec, leakage_ver)
CallComputeFinalKeyLength ==
    /\ call_result = <<>>
    /\ call_result' =
           <<IF final_key_length_raises(call_args.qber)
             THEN Raised("ValueError")
             ELSE Returned(compute_final_key_length(
                      call_args.reconciled_length, call_args.qber,
                      call_args.leakage_ec, call_args.leakage_ver))>>
    /\ UNCHANGED <<sessionVars, call_args>>


NextLength == CallComputeFinalKeyLength

SpecLength == InitLength /\ [][NextLength]_vars

\* the floor of the Devetak-Winter value of the arguments a, for a QBER
\* under the threshold
RawLength(a) ==
    DevetakWinterFloor[a.reconciled_length][a.qber.num + 1]
        - a.leakage_ec - a.leakage_ver

\* C21 as claimed: compute_final_key_length returns 0 for every QBER at or
\* above the threshold 0.11 and whenever the Devetak-Winter value is
\* negative, and never returns a negative length
C21_ZeroAtOrAboveThreshold ==
    call_result # <<>> =>
        /\ (~is_qber_secure(call_args.qber)
                \/ RawLength(call_args) < 0)
               => call_result[1] = Returned(0)
        /\ call_result[1].status = "returned" => call_result[1].value[1] >= 0

\* C21 corrected: compute_final_key_length raises ValueError for a QBER
\* above 0.5 and for no other QBER; for every QBER from the threshold 0.11
\* to 0.5, and whenever the Devetak-Winter value is negative, it returns 0;
\* otherwise it returns the floor of the Devetak-Winter value, which is not
\* negative
C21_ZeroFromThresholdToHalf ==
    call_result # <<>> =>
        IF 2 * call_args.qber.num > call_args.qber.den
        THEN call_result[1] = Raised("ValueError")
        ELSE /\ call_result[1].status = "returned"
             /\ call_result[1].value[1] >= 0
             /\ (~is_qber_secure(call_args.qber)
                     \/ RawLength(call_args) < 0)
                    => call_result[1].value[1] = 0
             /\ (is_qber_secure(call_args.qber)
                     /\ RawLength(call_args) >= 0)
                    => call_result[1].value[1] = RawLength(call_args)

\* the QBER is exactly 0.11, where the value before the leakage is
\* subtracted is still positive for the longer keys
C21_Witness ==
    /\ call_result = <<Returned(0)>>
    /\ call_args.qber = [num |-> 11, den |-> 100]
    /\ call_args.leakage_ec = 0

\* the Devetak-Winter value is negative for a QBER under the threshold
C21_WitnessNegative ==
    /\ call_result = <<Returned(0)>>
    /\ is_qber_secure(call_args.qber)
    /\ call_args.reconciled_length = 160
    /\ RawLength(call_args) < 0

----------------------------------------------------------------------------
(* The result record of run()                                              *)

\* _error_result(error_code, message): the dictionary returned on failure
error_result(error_code) ==
    [error |-> error_code, message |-> "message", secret_key |-> <<>>,
     success |-> FALSE]

\* run: the dictionary returned after privacy amplification
success_result(p) ==
    [secret_key |-> final_key[p], qber |-> TotalQber(p),
     key_length |-> Len(final_key[p]),
     leakage |-> leakage_ec[p] + leakage_ver[p], success |-> TRUE]

\* the dictionary run() has returned to its caller
returned_result(p) ==
    IF run_result[p] = "success" THEN success_result(p)
    ELSE error_result(run_result[p])

\* C22 as claimed: every result record returned by run(), on success and on
\* failure, has the success flag, the secret key, the QBER, the key length
\* and the leakage, and a failure record has an error code and a message
\* in addition
C22_ResultRecordFields ==
    \A p \in Party :
        pc[p] = "returned" =>
            /\ {"success", "secret_key", "qber", "key_length", "leakage"}
                   \subseteq DOMAIN returned_result(p)
            /\ ~returned_result(p).success
                   => {"error", "message"} \subseteq DOMAIN returned_result(p)

----------------------------------------------------------------------------
(* privacy/amplifier.py: PrivacyAmplifier.amplify called on its own by two *)
(* parties                                                                 *)

MaxAmpLen == 3

BitSeqs(n) == [1..n -> {0, 1}]

Ones(n) == [i \in 1..n |-> 1]

\* seeds for a key of key_length bits and the output length new_length:
\* every seed of the length amplify expects, one that is a bit longer and
\* one that is a bit shorter
SeedsFor(key_length, new_length) ==
    LET n == key_length + new_length - 1
    IN  (IF n >= 0 THEN BitSeqs(n) ELSE {})
            \cup {Ones(Max(n + 1, 0)), Ones(Max(n - 1, 0))}

\* keys of up to MaxAmpLen bits, output lengths from -1 to MaxAmpLen + 1
AmplifyArgs ==
    UNION {UNION {[key : BitSeqs(l), toeplitz_seed : SeedsFor(l, m),
                   new_length : {m}, rng_seed : {0}]
                  : m \in (-1)..(MaxAmpLen + 1)}
           : l \in 0..MaxAmpLen}

\* the sequence with its first bit flipped
FlipFirst(q) == IF q = <<>> THEN <<1>> ELSE [q EXCEPT ![1] = 1 - q[1]]

\* the peer's arguments: the same key and seed, or another key, or another
\* seed; its amplifier constructed with the same or another rng_seed
PeerArgs(a) ==
    {[b EXCEPT !.rng_seed = r] :
        b \in {a, [a EXCEPT !.key = FlipFirst(a.key)],
                  [a EXCEPT !.toeplitz_seed = FlipFirst(a.toeplitz_seed)]},
        r \in {0, 1}}

InitAmplify ==
    /\ NoSession
    /\ \E a \in AmplifyArgs :
         \E b \in PeerArgs(a) :
           call_args = [p \in Party |-> IF p = "Bob" THEN a ELSE b]
    /\ call_result = [p \in Party |-> <<>>]

\* variant: the amplifier hashes with a seed of its own, drawn with the
\* rng_seed it was constructed with
amplifier_amplify_OwnSeed(a) ==
    IF amplify_raises(a.key, a.toeplitz_seed, a.new_length)
    THEN Raised("ValueError")
    ELSE Returned(amplify(a.key,
                          [i \in 1..Len(a.toeplitz_seed) |->
                              (i + a.rng_seed) % 2],
                          a.new_length))

\* amplifier.amplify(key, toeplitz_seed, new_length)
amplifier_amplify(a) ==
    IF amplify_raises(a.key, a.toeplitz_seed, a.new_length)
    THEN Raised("ValueError")
    ELSE Returned(amplify(a.key, a.toeplitz_seed, a.new_length))

CallAmplify(p) ==
    /\ call_result[p] = <<>>
    /\ call_result' =
           [call_result EXCEPT ![p] = <<amplifier_amplify(call_args[p])>>]
    /\ UNCHANGED <<sessionVars, call_args>>

NextAmplify == \E p \in Party : CallAmplify(p)

SpecAmplify == InitAmplify /\ [][NextAmplify]_vars

----------------------------------------------------------------------------
(* Properties of amplify                                                   *)

\* both parties have called amplify with the same key, seed and length
SameAmplifyArgs ==
    /\ \A p \in Party : call_result[p] # <<>>
    /\ call_args["Alice"].key = call_args["Bob"].key
    /\ call_args["Alice"].toeplitz_seed = call_args["Bob"].toeplitz_seed
    /\ call_args["Alice"].new_length = call_args["Bob"].new_length

C24_OutputLengthIsNewLength ==
    \A p \in Party :
        call_result[p] # <<>> =>
            /\ call_result[p][1].status = "returned" =>
                   /\ Len(call_result[p][1].value[1]) = call_args[p].new_length
                   /\ call_args[p].new_length <= Len(call_args[p].key)
                   /\ \A i \in 1..call_args[p].new_length :
                          call_result[p][1].value[1][i] \in {0, 1}
            /\ call_args[p].new_length > Len(call_args[p].key)
                   => call_result[p][1] = Raised("ValueError")

C24_Witness ==
    /\ call_result["Bob"] # <<>>
    /\ call_result["Bob"][1].status = "returned"
    /\ Len(call_args["Bob"].key) = MaxAmpLen
    /\ call_args["Bob"].new_length = MaxAmpLen
    /\ Len(call_result["Bob"][1].value[1]) = MaxAmpLen

\* C26: amplify raises ValueError, and returns nothing, exactly when the key
\* is empty, the requested length is not positive, the requested length
\* exceeds the key length, or the seed length is not
\* len(key) + new_length - 1
C26_AmplifyRejectsInvalidArguments ==
    \A p \in Party :
        call_result[p] # <<>> =>
            LET a == call_args[p]
                invalid == \/ Len(a.key) = 0
                           \/ a.new_length <= 0
                           \/ a.new_length > Len(a.key)
                           \/ Len(a.toeplitz_seed)
                                  # Len(a.key) + a.new_length - 1
            IN  IF invalid THEN call_result[p][1] = Raised("ValueError")
                ELSE call_result[p][1].status = "returned"

\* the only invalid argument is the seed, one bit too long
C26_Witness ==
    /\ call_result["Alice"] = <<Raised("ValueError")>>
    /\ Len(call_args["Alice"].key) = 2
    /\ call_args["Alice"].new_length = 2
    /\ Len(call_args["Alice"].toeplitz_seed) = 4

----------------------------------------------------------------------------
(* privacy/amplifier.py: PrivacyAmplifier.amplify_with_result called on    *)
(* its own                                                                 *)

\* AmplificationResult(...) of a failure and of a success
AmplificationFailure(k, output_length, error_message) ==
    [secret_key |-> <<>>, input_length |-> Len(k),
     output_length |-> output_length, success |-> FALSE,
     error_message |-> error_message]

AmplificationSuccess(k, output_length, secret_key) ==
    [secret_key |-> secret_key, input_length |-> Len(k),
     output_length |-> output_length, success |-> TRUE,
     error_message |-> "None"]

\* validate_toeplitz_seed
validate_toeplitz_seed(seed, key_length, final_len) ==
    /\ Len(seed) = key_length + final_len - 1
    /\ \A i \in 1..Len(seed) : seed[i] \in {0, 1}

\* amplify_with_result from the seed on: "Apply amplification"
apply_amplification(k, seed, output_length) ==
    IF amplify_raises(k, seed, output_length)
    THEN Returned(AmplificationFailure(k, output_length, "Amplification failed"))
    ELSE Returned(AmplificationSuccess(k, output_length,
                                       amplify(k, seed, output_length)))

\* amplify_with_result from the output length on; seed is <<>> for None or
\* <<toeplitz_seed>>; the outcomes the call can have
amplify_from_length(k, output_length, seed) ==
    IF output_length <= 0
    THEN {Returned(AmplificationFailure(k, 0,
              "Computed output length is zero or negative"))}
    ELSE IF seed = <<>>
    THEN {apply_amplification(k, s, output_length) :
             s \in generate_toeplitz_seed(Len(k), output_length)}
    ELSE IF ~validate_toeplitz_seed(seed[1], Len(k), output_length)
    THEN {Returned(AmplificationFailure(k, output_length,
              "Invalid Toeplitz seed"))}
    ELSE {apply_amplification(k, seed[1], output_length)}

\* variant: the QBER is not compared with the threshold first
amplify_with_result_NoThreshold(k, qber, leak_ec, leak_ver, seed) ==
    IF final_key_length_raises(qber)
    THEN {Raised("ValueError")}
    ELSE amplify_from_length(
             k, compute_final_key_length(Len(k), qber, leak_ec, leak_ver),
             seed)

\* amplify_with_result(key, qber, leakage_ec, leakage_ver, toeplitz_seed)
amplify_with_result(k, qber, leak_ec, leak_ver, seed) ==
    IF ~is_qber_secure(qber)
    THEN {Returned(AmplificationFailure(k, 0, "QBER exceeds threshold"))}
    ELSE IF final_key_length_raises(qber)
    THEN {Raised("ValueError")}
    ELSE amplify_from_length(
             k, compute_final_key_length(Len(k), qber, leak_ec, leak_ver),
             seed)

\* the seed argument: None, a seed of ones with the length that fits the
\* output length the call computes, or one that is a bit longer
SeedArguments(n, qber, leak_ec, leak_ver) ==
    LET l == IF is_qber_secure(qber)
             THEN compute_final_key_length(n, qber, leak_ec, leak_ver)
             ELSE 0
    IN  {<<>>, <<Ones(n + l - 1)>>, <<Ones(n + l)>>}

\* a key of every reconciled length, every QBER e / n from 0 to 1
InitAmplifyResult ==
    /\ NoSession
    /\ \E n \in ReconciledLengths :
         \E e \in 0..n, le \in LeakagesEc, lv \in LeakagesVer :
           \E sd \in SeedArguments(n, [num |-> e, den |-> n], le, lv) :
             call_args = [key |-> [i \in 1..n |-> i % 2],
                          qber |-> [num |-> e, den |-> n],
                          leakage_ec |-> le, leakage_ver |-> lv,
                          toeplitz_seed |-> sd]
    /\ call_result = <<>>

CallAmplifyWithResult ==
    /\ call_result = <<>>
    /\ \E r \in amplify_with_result(call_args.key, call_args.qber,
                                     call_args.leakage_ec,
                                     call_args.leakage_ver,
                                     call_args.toeplitz_seed) :
           call_result' = <<r>>
    /\ UNCHANGED <<sessionVars, call_args>>

NextAmplifyResult == CallAmplifyWithResult

SpecAmplifyResult == InitAmplifyResult /\ [][NextAmplifyResult]_vars

\* the output length amplify_with_result computes is zero or negative
NoOutputLength(a) ==
    compute_final_key_length(Len(a.key), a.qber, a.leakage_ec,
                             a.leakage_ver) <= 0

\* C25: whenever the QBER is at or above 0.11, or the computed output length
\* is zero or negative, amplify_with_result returns, without raising, a
\* result with success false and an empty secret key
C25_FailureResultWithoutRaising ==
    call_result # <<>> =>
        ((~is_qber_secure(call_args.qber) \/ NoOutputLength(call_args))
            => /\ call_result[1].status = "returned"
               /\ call_result[1].value[1].success = FALSE
               /\ call_result[1].value[1].secret_key = <<>>)

\* a QBER above 0.5, which compute_final_key_length would not accept
C25_Witness ==
    /\ call_result # <<>>
    /\ call_result[1].status = "returned"
    /\ call_result[1].value[1].success = FALSE
    /\ call_args.qber = [num |-> 100, den |-> 160]
    /\ call_args.toeplitz_seed = <<>>

\* a successful amplification, for comparison
C25_WitnessSuccess ==
    /\ call_result # <<>>
    /\ call_result[1].status = "returned"
    /\ call_result[1].value[1].success
    /\ Len(call_result[1].value[1].secret_key) = 80

----------------------------------------------------------------------------
(* auth/wegman_carter.py: generate_auth_tag and verify_auth_tag            *)

DEFAULT_TAG_BITS == 64

\* 2^e for e from 0 to 7
Pow2(e) == CASE e = 0 -> 1 [] e = 1 -> 2 [] e = 2 -> 4 [] e = 3 -> 8
             [] e = 4 -> 16 [] e = 5 -> 32 [] e = 6 -> 64 [] e = 7 -> 128

\* _bytes_to_bits: eight bits per byte, the most significant first
bytes_to_bits(data) ==
    [i \in 1..(8 * Len(data)) |->
        (data[((i - 1) \div 8) + 1] \div Pow2(7 - ((i - 1) % 8))) % 2]

\* _bits_to_bytes: the bits padded with zeros to a multiple of 8, then
\* eight bits per byte, the most significant first
bits_to_bytes(bits) ==
    LET bit(i) == IF i <= Len(bits) THEN bits[i] ELSE 0
    IN  [b \in 1..((Len(bits) + 7) \div 8) |->
            128 * bit(8 * b - 7) + 64 * bit(8 * b - 6) + 32 * bit(8 * b - 5)
              + 16 * bit(8 * b - 4) + 8 * bit(8 * b - 3) + 4 * bit(8 * b - 2)
              + 2 * bit(8 * b - 1) + bit(8 * b)]

\* a number that depends on every byte of the data and on its position
RECURSIVE ByteMix(_)
ByteMix(data) ==
    IF data = <<>> THEN 0
    ELSE (3 * ByteMix(Tail(data)) + Head(data) + Len(data)) % 1009

\* hmac.new(key, label + data, "sha256").digest() as 256 bits. SHA-256 is
\* not computed: the digest is a fixed function of the key, the label and
\* the data, one of several chosen by the number h
hmac_digest_bits(h, k, label, data) ==
    [i \in 1..256 |->
        ((h + 1) * i * i + k * (i + 3) + (i \div 5) + Len(label)
            + ByteMix(data) * (i + 1)) % 2]

\* _derive_toeplitz_seed: the digests of "toeplitz_seed_<counter>" in
\* counter mode, cut to seed_bytes_needed bytes
derive_toeplitz_seed(h, k, message_bits, nbits) ==
    LET seed_bits_needed == message_bits + nbits - 1
        seed_bytes_needed == ((seed_bits_needed + 7) \div 8) + 1
    IN  [i \in 1..(8 * seed_bytes_needed) |->
            hmac_digest_bits(h, k, "toeplitz_seed_", <<(i - 1) \div 256>>)
                [((i - 1) % 256) + 1]]

\* _derive_otp_mask: the first tag bits of the digest of "otp_mask_" + message
derive_otp_mask(h, k, message, nbits) ==
    SubSeq(hmac_digest_bits(h, k, "otp_mask_", message), 1, nbits)

\* generate_auth_tag: (T x M mod 2) xor the mask, as bytes; for the empty
\* message the first bytes of the digest of "empty_message_tag"
generate_auth_tag(h, message, k, nbits) ==
    LET message_bits == bytes_to_bits(message)
        message_len == Len(message_bits)
        toeplitz_seed == derive_toeplitz_seed(h, k, message_len, nbits)
        hash_result ==
            [r \in 1..nbits |->
                Cardinality({j \in 0..(message_len - 1) :
                    /\ message_bits[j + 1] = 1
                    /\ toeplitz_entry(toeplitz_seed, nbits, r - 1, j) = 1})
                  % 2]
        otp_mask == derive_otp_mask(h, k, message, nbits)
    IN  IF message_len = 0
        THEN SubSeq(bits_to_bytes(hmac_digest_bits(h, k, "empty_message_tag", <<>>)),
                    1, (nbits + 7) \div 8)
        ELSE bits_to_bytes([r \in 1..nbits |-> Xor(hash_result[r], otp_mask[r])])

\* variant: the tag is compared with the whole bytes of the expected tag only
verify_auth_tag_WholeBytes(h, message, tag, k, nbits) ==
    tag = SubSeq(generate_auth_tag(h, message, k, nbits), 1, nbits \div 8)

\* verify_auth_tag: hmac.compare_digest(tag, expected_tag)
verify_auth_tag(h, message, tag, k, nbits) ==
    tag = generate_auth_tag(h, message, k, nbits)

MaxMessageLen == 2

\* messages of up to MaxMessageLen bytes
MessageBytes == {0, 1, 128, 255}

Messages == UNION {[1..n -> MessageBytes] : n \in 0..MaxMessageLen}

AuthKeys == {1, 2}

\* what the verifier is given: the message, the tag and the key of the
\* sender, or one of them changed
Variations == {"same", "other_message", "other_key", "other_tag"}

InitTag ==
    /\ NoSession
    /\ call_args \in [digest : {0, 1}, message : Messages, key : AuthKeys,
                       tag_bits : {DEFAULT_TAG_BITS, 12},
                       variation : Variations]
    /\ call_result = [tag |-> <<>>, verdict |-> <<>>]

\* tag = generate_auth_tag(message, key, tag_bits)
CallGenerateAuthTag ==
    /\ call_result.tag = <<>>
    /\ call_result' =
           [call_result EXCEPT !.tag =
               <<generate_auth_tag(call_args.digest, call_args.message,
                                   call_args.key, call_args.tag_bits)>>]
    /\ UNCHANGED <<sessionVars, call_args>>

\* the arguments of the verifier
VerifierMessage ==
    IF call_args.variation = "other_message"
    THEN FlipFirst(call_args.message) ELSE call_args.message

VerifierKey ==
    IF call_args.variation = "other_key"
    THEN 3 - call_args.key ELSE call_args.key

VerifierTag ==
    IF call_args.variation = "other_tag"
    THEN [call_result.tag[1] EXCEPT ![1] = IF @ % 2 = 0 THEN @ + 1 ELSE @ - 1]
    ELSE call_result.tag[1]

\* verify_auth_tag(message, tag, key, tag_bits)
CallVerifyAuthTag ==
    /\ call_result.tag # <<>>
    /\ call_result.verdict = <<>>
    /\ call_result' =
           [call_result EXCEPT !.verdict =
               <<verify_auth_tag(call_args.digest, VerifierMessage,
                                 VerifierTag, VerifierKey,
                                 call_args.tag_bits)>>]
    /\ UNCHANGED <<sessionVars, call_args>>

NextTag == CallGenerateAuthTag \/ CallVerifyAuthTag

SpecTag == InitTag /\ [][NextTag]_vars

C27_WitnessMessage ==
    /\ call_result.verdict = <<TRUE>>
    /\ call_args.variation = "same"
    /\ call_args.message = <<128, 255>>
    /\ call_args.tag_bits = DEFAULT_TAG_BITS

----------------------------------------------------------------------------
(* verification/utils.py: gf_multiply called on its own                    *)

\* field elements 0 <= v < 2^field_bits, as sets of bit positions: every
\* combination of the two lowest bits, a middle bit and the two highest
FieldElements(field_bits) ==
    SUBSET {0, 1, field_bits \div 2, field_bits - 2, field_bits - 1}

InitField ==
    /\ NoSession
    /\ \E n \in {64, 128} :
           call_args \in [a : FieldElements(n), b : FieldElements(n),
                          field_bits : {n}]
    /\ call_result = <<>>

\* gf_multiply(a, b, field_bits)
CallGfMultiply ==
    /\ call_result = <<>>
    /\ call_result' = <<Returned(gf_multiply(call_args.a, call_args.b,
                                             call_args.field_bits))>>
    /\ UNCHANGED <<sessionVars, call_args>>

NextField == CallGfMultiply

SpecField == InitField /\ [][NextField]_vars

\* C28: for field_bits 64 and 128 and field elements a and b, the product
\* gf_multiply(a, b) is a field element again: it has no bit at position
\* field_bits or above
C28_ProductIsFieldElement ==
    call_result # <<>> =>
        /\ call_result[1].status = "returned"
        /\ call_result[1].value[1] \subseteq 0..(call_args.field_bits - 1)

\* both factors have the top bit set, so a is reduced by the modulus
C28_Witness ==
    /\ call_result # <<>>
    /\ call_args.field_bits = 128
    /\ 127 \in call_args.a
    /\ call_args.b = {1, 127}
    /\ call_result[1].value[1] # {}

----------------------------------------------------------------------------
(* privacy/utils.py: construct_toeplitz_matrix and                         *)
(* construct_toeplitz_matrix_numpy called on their own                     *)

MaxDim == 3

\* construct_toeplitz_matrix: toeplitz(col, row) with col = seed[:num_rows]
\* and row = seed[num_rows - 1 : num_rows - 1 + num_cols]; the matrix is a
\* function of the row i and the column j, both from 0
construct_toeplitz_matrix(seed, num_rows, num_cols) ==
    IF Len(seed) # num_cols + num_rows - 1 THEN Raised("ValueError")
    ELSE Returned([i \in 0..(num_rows - 1) |->
                      [j \in 0..(num_cols - 1) |->
                          toeplitz_entry(seed, num_rows, i, j)]])

\* construct_toeplitz_matrix_numpy: seed_array[rows - cols + num_cols - 1]
construct_toeplitz_matrix_numpy(seed, num_rows, num_cols) ==
    IF Len(seed) # num_cols + num_rows - 1 THEN Raised("ValueError")
    ELSE Returned([i \in 0..(num_rows - 1) |->
                      [j \in 0..(num_cols - 1) |->
                          seed[(i - j + num_cols - 1) + 1]]])

\* matrices of 1 to MaxDim rows and columns; every seed of the length that
\* fits, one a bit longer and one a bit shorter
InitToeplitz ==
    /\ NoSession
    /\ \E r \in 1..MaxDim, c \in 1..MaxDim :
           call_args \in [seed : SeedsFor(c, r), num_rows : {r},
                          num_cols : {c}]
    /\ call_result = <<>>

CallConstructToeplitzMatrix ==
    /\ call_result = <<>>
    /\ call_result' = <<construct_toeplitz_matrix(
                            call_args.seed, call_args.num_rows,
                            call_args.num_cols)>>
    /\ UNCHANGED <<sessionVars, call_args>>

CallConstructToeplitzMatrixNumpy ==
    /\ call_result = <<>>
    /\ call_result' = <<construct_toeplitz_matrix_numpy(
                            call_args.seed, call_args.num_rows,
                            call_args.num_cols)>>
    /\ UNCHANGED <<sessionVars, call_args>>

NextToeplitz == CallConstructToeplitzMatrix \/ CallConstructToeplitzMatrixNumpy

SpecToeplitz == InitToeplitz /\ [][NextToeplitz]_vars

\* C29: for every seed of length rows + cols - 1 a matrix of rows x cols is
\* built, and it is constant along each descending diagonal:
\* T[i][j] = T[i+1][j+1] wherever both entries exist
C29_ConstantDiagonals ==
    call_result # <<>> =>
        (Len(call_args.seed) = call_args.num_rows + call_args.num_cols - 1
            => /\ call_result[1].status = "returned"
               /\ \A i \in 0..(call_args.num_rows - 2) :
                      \A j \in 0..(call_args.num_cols - 2) :
                          call_result[1].value[1][i][j]
                              = call_result[1].value[1][i + 1][j + 1])

\* a matrix of MaxDim x MaxDim that is not constant along its rows
C29_Witness ==
    /\ call_result # <<>>
    /\ call_result[1].status = "returned"
    /\ call_args.num_rows = MaxDim
    /\ call_args.num_cols = MaxDim
    /\ call_result[1].value[1][0][0] = 1
    /\ call_result[1].value[1][0][1] = 0
    /\ call_result[1].value[1][1][0] = 0
    /\ call_result[1].value[1][1][1] = 1

----------------------------------------------------------------------------
(* Properties of the block size of the passes                              *)

\* party p has split its key into the blocks of the current pass and has
\* not yet exchanged the parities
BlocksSplit(p) == pc[p] \in {"par_send", "par_recv"}

\* C30: pass i of reconcile, counting from 0, runs with the block size
\* initial_block_size * 2^i, so the block size doubles from each pass to the
\* next, and the key is split into ceil(len(key) / block size) blocks
C30_BlockSizeDoubles ==
    \A p \in Party :
        /\ block_size[p] = initial_block_size * 2^pass_idx[p]
        /\ BlocksSplit(p) =>
               Len(local_parities[p])
                   = (Len(key[p]) + initial_block_size * 2^pass_idx[p] - 1)
                         \div (initial_block_size * 2^pass_idx[p])

\* the last of at least two passes has begun
C30_Witness ==
    /\ num_passes >= 2
    /\ pass_idx["Alice"] = num_passes - 1
    /\ BlocksSplit("Alice")
    /\ block_size["Alice"] = initial_block_size * 2^(num_passes - 1)
    /\ Len(local_parities["Alice"]) = 1
    /\ Len(key["Alice"]) > initial_block_size

----------------------------------------------------------------------------
(* privacy/utils.py: bits_to_bytes and bytes_to_bits called one after the  *)
(* other                                                                   *)

MaxBits == 9

\* the inner loop of bits_to_bytes: byte_val = (byte_val << 1) | bit for the
\* eight bits from (0-based) position i of the padded list
RECURSIVE utils_byte_val(_, _, _, _)
utils_byte_val(padded_bits, i, j, byte_val) ==
    IF j = 8 THEN byte_val
    ELSE utils_byte_val(padded_bits, i, j + 1,
                        2 * byte_val + padded_bits[i + j + 1])

\* bytes_to_bits that takes the least significant bit of each byte first
utils_bytes_to_bits_LsbFirst(data, num_bits) ==
    LET bits == [i \in 1..(8 * Len(data)) |->
                    (data[((i - 1) \div 8) + 1] \div 2^((i - 1) % 8)) % 2]
    IN  IF num_bits # <<>>
        THEN SubSeq(bits, 1, Min(num_bits[1], Len(bits)))
        ELSE bits

\* bits_to_bytes: the bits padded with zeros to a multiple of 8, then one
\* byte for each eight bits, the first bit the most significant
utils_bits_to_bytes(bits) ==
    LET padded_length == ((Len(bits) + 7) \div 8) * 8
        padded_bits == bits \o [i \in 1..(padded_length - Len(bits)) |-> 0]
    IN  [b \in 1..(padded_length \div 8) |->
            utils_byte_val(padded_bits, 8 * (b - 1), 0, 0)]

\* bytes_to_bits: (byte_val >> i) & 1 for i from 7 down to 0 for each byte,
\* then bits[:num_bits] unless num_bits is None (<<>>)
utils_bytes_to_bits(data, num_bits) ==
    LET bits == [i \in 1..(8 * Len(data)) |->
                    (data[((i - 1) \div 8) + 1]
                        \div 2^(7 - ((i - 1) % 8))) % 2]
    IN  IF num_bits # <<>>
        THEN SubSeq(bits, 1, Min(num_bits[1], Len(bits)))
        ELSE bits

\* every bit list of up to MaxBits bits; the bits are read back with
\* num_bits = len(bits) or with num_bits = None
InitBits ==
    /\ NoSession
    /\ \E n \in 0..MaxBits :
           call_args \in [bits : BitSeqs(n), num_bits : {<<>>, <<n>>}]
    /\ call_result = <<>>

\* converted = bits_to_bytes(original)
CallBitsToBytes ==
    /\ call_result = <<>>
    /\ call_result' = <<Returned(utils_bits_to_bytes(call_args.bits))>>
    /\ UNCHANGED <<sessionVars, call_args>>

\* recovered = bytes_to_bits(converted, num_bits)
CallBytesToBits ==
    /\ Len(call_result) = 1
    /\ call_result' =
           Append(call_result,
                  Returned(utils_bytes_to_bits(call_result[1].value[1],
                                               call_args.num_bits)))
    /\ UNCHANGED <<sessionVars, call_args>>

NextBits == CallBitsToBytes \/ CallBytesToBits

SpecBits == InitBits /\ [][NextBits]_vars

\* C31: the bits read back from bits_to_bytes(b) with num_bits = len(b) are
\* b; read back without num_bits they are b followed by the zeros that pad
\* the last byte, fewer than 8 of them
C31_BitsBytesRoundTrip ==
    Len(call_result) = 2 =>
        LET b == call_args.bits
            converted == call_result[1].value[1]
            recovered == call_result[2].value[1]
        IN  /\ Len(converted) = (Len(b) + 7) \div 8
            /\ \A i \in 1..Len(converted) : converted[i] \in 0..255
            /\ SubSeq(recovered, 1, Len(b)) = b
            /\ call_args.num_bits # <<>> => recovered = b
            /\ call_args.num_bits = <<>> =>
                   /\ Len(recovered) = 8 * Len(converted)
                   /\ Len(recovered) - Len(b) \in 0..7
                   /\ \A i \in (Len(b) + 1)..Len(recovered) :
                          recovered[i] = 0

\* MaxBits bits that end in a one, more than one byte, read back with
\* num_bits = len(bits)
C31_Witness ==
    /\ Len(call_result) = 2
    /\ Len(call_args.bits) = MaxBits
    /\ call_args.bits[MaxBits] = 1
    /\ call_args.bits[1] = 0
    /\ call_args.num_bits = <<MaxBits>>
    /\ Len(call_result[1].value[1]) = 2
    /\ call_result[2].value[1] = call_args.bits

\* the same bits read back without num_bits: the padding is returned too
C31_WitnessPadding ==
    /\ Len(call_result) = 2
    /\ Len(call_args.bits) = MaxBits
    /\ call_args.bits[MaxBits] = 1
    /\ call_args.num_bits = <<>>
    /\ Len(call_result[2].value[1]) = 16

----------------------------------------------------------------------------
(* Properties of the counters and of the flips of reconciliation           *)

\* C32: once reconcile has returned at both parties, the two leakage
\* counters are equal and the two errors-corrected counters are equal
C32_CountersAgree ==
    ReconcileReturned("Alice") /\ ReconcileReturned("Bob") =>
        /\ leakage_bits["Alice"] = leakage_bits["Bob"]
        /\ leakage_ec["Alice"] = leakage_ec["Bob"]
        /\ errors_corrected["Alice"] = errors_corrected["Bob"]

\* two passes with at least two corrections and search rounds
C32_Witness ==
    /\ ReconcileReturned("Alice")
    /\ ReconcileReturned("Bob")
    /\ num_passes = 2
    /\ errors_corrected["Bob"] >= 2
    /\ errors_corrected["Alice"] = errors_corrected["Bob"]
    /\ leakage_bits["Bob"] > 4

\* C35: a step that changes a bit of the initiator's key changes it at a
\* position where the two keys differ before the step, and no step
\* increases the number of positions in which the two keys differ
C35_FlipsOnlyDifferingBits ==
    [][/\ \A i \in 1..Len(key["Alice"]) :
              key'["Alice"][i] # key["Alice"][i]
                  => key["Alice"][i] # key["Bob"][i]
       /\ Cardinality(Diff(key'["Alice"], key'["Bob"]))
              <= Cardinality(Diff(key["Alice"], key["Bob"]))]_vars

\* the initiator has flipped, in a search over a block of several
\* positions, one of three differing bits, and two are left
C35_Witness ==
    /\ last_search["Alice"].party = "Alice"
    /\ Len(last_search["Alice"].block) >= 4
    /\ Cardinality(last_search["Alice"].diff0) = 3
    /\ last_search["Alice"].error_idx \in last_search["Alice"].diff0
    /\ Cardinality(DiffSet) = 2
    /\ Cardinality(Diff(key0["Alice"], key0["Bob"])) = 3

\* C36: the errors-corrected count a party holds when reconcile has
\* returned is the number of positions in which the keys differed at the
\* start minus the number in which they differ now
C36_ErrorsCorrectedIsDifferenceRemoved ==
    \A p \in Party :
        ReconcileReturned(p) =>
            errors_corrected[p]
                = Cardinality(Diff(key0["Alice"], key0["Bob"]))
                      - Cardinality(DiffSet)

\* three differences at the start, one corrected, two left
C36_Witness ==
    /\ ReconcileReturned("Alice")
    /\ ReconcileReturned("Bob")
    /\ Cardinality(Diff(key0["Alice"], key0["Bob"])) = 3
    /\ Cardinality(DiffSet) = 2
    /\ errors_corrected["Alice"] = 1

\* the blocks of the first pass, as positions of the key
FirstPassBlocks ==
    original_blocks_of(Len(key0["Alice"]), rng_seed, 0, initial_block_size)

\* every block of the first pass holds at most one differing position of
\* the keys reconcile started with
AtMostOneErrorPerBlock ==
    \A k \in 1..Len(FirstPassBlocks) :
        Cardinality(Diff(key0["Alice"], key0["Bob"])
                        \cap RangeOf(FirstPassBlocks[k])) <= 1

\* C37: if every block of the first pass holds at most one differing
\* position, the initiator's key equals the responder's when reconcile has
\* returned
C37_OneErrorPerBlockReconciled ==
    AtMostOneErrorPerBlock =>
        \A p \in Party : leakage_ec[p] >= 0 => key["Alice"] = key["Bob"]

\* two differing positions in two blocks of a single pass, both corrected
C37_Witness ==
    /\ AtMostOneErrorPerBlock
    /\ Cardinality(Diff(key0["Alice"], key0["Bob"])) = 2
    /\ num_passes = 1
    /\ leakage_ec["Alice"] >= 0
    /\ leakage_ec["Bob"] >= 0
    /\ key["Alice"] = key["Bob"]
    /\ errors_corrected["Bob"] = 2

----------------------------------------------------------------------------
(* Properties of the end of a session                                      *)

\* run() of party p is over: it has returned a result or raised
Ended(p) == pc[p] \in {"returned", "raised"}

\* C33: when both runs of a session are over, both have returned a result
\* and the two results are both success or both the same error code
C33_SameOutcome ==
    Ended("Alice") /\ Ended("Bob") =>
        /\ pc["Alice"] = "returned"
        /\ pc["Bob"] = "returned"
        /\ run_result["Alice"] = run_result["Bob"]
        /\ run_result["Alice"] # "none"

\* the two runs end the same way also when they do not return: both
\* return the same code, or both raise
SameEnd ==
    Ended("Alice") /\ Ended("Bob") =>
        /\ pc["Alice"] = pc["Bob"]
        /\ run_result["Alice"] = run_result["Bob"]
        /\ pc["Alice"] = "returned" => run_result["Alice"] # "none"

\* party p is suspended in a recv_structured of run(), of reconcile() or
\* of verify()
Suspended(p) ==
    \/ AtRecv(p)
    \/ pc[p] \in {"bases_recv", "test_recv", "outcomes_recv", "pa_recv"}
    \/ pc[p] = "qkd_start" /\ is_initiator(p)

\* party p is suspended and no message has arrived for it
Blocked(p) == Suspended(p) /\ chan[p] = <<>>

\* the initiator has sent the privacy-amplification seed: it does so, once,
\* on its way to the success result
SeedSent == run_result["Alice"] = "success"

\* the responder has got as far as the receive of the seed
SeedAwaited ==
    \/ pc["Bob"] = "pa_recv"
    \/ run_result["Bob"] \in {"success", "protocol_error"}

\* C34: the responder waits for the seed in exactly the sessions in which
\* the initiator sends it: when both have passed the decision one waits if
\* and only if the other has sent, the seed is the only message then in
\* flight, a party is never blocked while its peer's run is over or
\* blocked too, and no message is left in flight when both runs are over
C34_SeedAwaitedIffSent ==
    /\ Ended("Alice") /\ (pc["Bob"] = "pa_recv" \/ Ended("Bob"))
           => (SeedAwaited <=> SeedSent)
    /\ pc["Bob"] = "pa_recv" /\ SeedSent =>
           /\ Len(chan["Bob"]) = 1
           /\ chan["Bob"][1].header = MSG_PA_SEED
           /\ chan["Alice"] = <<>>
    /\ \A p \in Party :
           Blocked(p) => ~Ended(Peer(p)) /\ ~Blocked(Peer(p))
    /\ Ended("Alice") /\ Ended("Bob") =>
           chan["Alice"] = <<>> /\ chan["Bob"] = <<>>

\* the seed is in flight to the waiting responder
C34_Witness ==
    /\ pc["Bob"] = "pa_recv"
    /\ SeedSent
    /\ Len(chan["Bob"]) = 1
    /\ chan["Bob"][1].header = MSG_PA_SEED
    /\ Len(Received("Bob").payload) = Len(key["Bob"]) + final_length["Bob"] - 1

\* a session in which no seed is sent and none is awaited, after a
\* verification that succeeded
C34_WitnessNoSeed ==
    /\ Ended("Alice")
    /\ Ended("Bob")
    /\ is_verified["Bob"] = <<TRUE>>
    /\ ~SeedSent
    /\ ~SeedAwaited

\* C38: a result with success and a non-empty secret key reports a QBER
\* strictly below the threshold 0.11
C38_SuccessOnlyBelowThreshold ==
    \A p \in Party :
        (pc[p] = "returned" /\ returned_result(p).success
             /\ returned_result(p).secret_key # <<>>)
            => returned_result(p).qber.num * QBER_THRESHOLD.den
                   < QBER_THRESHOLD.num * returned_result(p).qber.den

\* a success result that reports a QBER above 0
C38_Witness ==
    /\ pc["Alice"] = "returned"
    /\ pc["Bob"] = "returned"
    /\ returned_result("Bob").success
    /\ Len(returned_result("Bob").secret_key) > 0
    /\ returned_result("Bob").qber.num > 0
    /\ errors_corrected["Bob"] > 0

\* a verified key whose estimated QBER is 0.11 or more: no key is returned
C38_WitnessAtThreshold ==
    /\ pc["Bob"] = "returned"
    /\ is_verified["Bob"] = <<TRUE>>
    /\ ~is_qber_secure(TotalQber("Bob"))
    /\ ~returned_result("Bob").success
    /\ final_length["Bob"] = 0

----------------------------------------------------------------------------
(* privacy/utils.py: construct_toeplitz_matrix and                         *)
(* construct_toeplitz_matrix_numpy called with the same arguments          *)

\* construct_toeplitz_matrix_numpy called with the arguments
\* construct_toeplitz_matrix was called with
CallConstructToeplitzMatrixNumpyNext ==
    /\ Len(call_result) = 1
    /\ call_result' =
           Append(call_result,
                  construct_toeplitz_matrix_numpy(
                      call_args.seed, call_args.num_rows, call_args.num_cols))
    /\ UNCHANGED <<sessionVars, call_args>>

NextToeplitzBoth ==
    CallConstructToeplitzMatrix \/ CallConstructToeplitzMatrixNumpyNext

SpecToeplitzBoth == InitToeplitz /\ [][NextToeplitzBoth]_vars

\* C39: called with the same seed, num_rows and num_cols the two functions
\* return the same matrix
C39_SameMatrix ==
    Len(call_result) = 2 => call_result[1] = call_result[2]

\* what the two functions agree on: both raise ValueError for the same
\* seeds and both return a matrix of num_rows x num_cols; the entry [0][0]
\* is seed[0] in the one and seed[num_cols - 1] in the other
SameShapeAndValidation ==
    Len(call_result) = 2 =>
        /\ call_result[1].status = call_result[2].status
        /\ call_result[1].status = "returned" =>
               /\ DOMAIN call_result[1].value[1]
                      = DOMAIN call_result[2].value[1]
               /\ \A i \in DOMAIN call_result[1].value[1] :
                      DOMAIN call_result[1].value[1][i]
                          = DOMAIN call_result[2].value[1][i]
               /\ call_result[1].value[1][0][0] = call_args.seed[1]
               /\ call_result[2].value[1][0][0]
                      = call_args.seed[call_args.num_cols]

====
